---- MODULE Spec2Model ----
(***************************************************************************)
(* Spot-futures arbitrage: the strategy orchestrator                       *)
(* (strategy/arbitrage_strategy.py), its ledger records                    *)
(* (models/trading_models.py) and the z-score analyzer                     *)
(* (services/analysis_service.py).                                         *)
(*                                                                         *)
(* Prices are whole rupees, times of day are minutes since midnight.       *)
(* A Python exception is modelled by what the enclosing try/except makes   *)
(* of it; the places that raise on every call are kept as explicit lookups *)
(* (SignalType, strategy_config_has, ArbitrageTradeResult) so that the     *)
(* code behind them stays visible.                                         *)
(***************************************************************************)
EXTENDS Integers, Sequences, FiniteSets, TLC

VARIABLES
    positions,               \* self.positions: dict symbol -> ArbitragePosition, in insertion order
    completed_trades,        \* self.completed_trades
    daily_pnl,               \* self.daily_pnl
    spot_quotes,             \* self.spot_quotes
    futures_quotes,          \* self.futures_quotes
    current_spreads,         \* self.current_spreads
    signals_generated_today, \* self.signals_generated_today (symbols of the signals)
    market_state,            \* self.market_state: the two flags of the strategy state
    metrics,                 \* self.metrics: the counts and sums of StrategyMetrics
    now,                     \* datetime.now(), minutes since midnight
    last_call,               \* the call of the step just taken: its arguments, its return
                             \* value and, for a cycle, what it did, in order
    analyzer,                \* the ZScoreArbitrageAnalyzer: basis_history, data_point_count
    analysis,                \* the analyzer call of the step just taken and what it returned
    data_service,            \* a HybridArbitrageDataService and the two services it holds
    service_call             \* the call on the data service of the step just taken

strategy_vars == <<positions, completed_trades, daily_pnl, spot_quotes, futures_quotes,
                   current_spreads, signals_generated_today, market_state, metrics,
                   now, last_call>>
analyzer_vars == <<analyzer, analysis>>
service_vars == <<data_service, service_call>>
vars == <<strategy_vars, analyzer_vars, service_vars>>

----------------------------------------------------------------------------
(* Bounds of the model                                                     *)

Symbols == {"A", "B", "C"}
\* get_arbitrage_symbols(): the order in which the universe is iterated
trading_symbols == <<"A", "B", "C">>
\* 14:30, 15:05, 15:20, 16:05
Times == {870, 905, 920, 965}
SpotPrices == {1000}
FuturesPrices == {1013}
MaxSignals == 2

----------------------------------------------------------------------------
(* Configuration (config/settings.py)                                      *)

portfolio_value == 100000
\* MAX_POSITIONS (main.py:73); the model runs the configuration MAX_POSITIONS=2
max_positions == 2
square_off_hour == 15
square_off_minute == 20
days_before_expiry_to_exit == 3

\* the attributes an ArbitrageStrategyConfig instance has
ArbitrageStrategyConfig_fields ==
    {"portfolio_value", "risk_per_trade_pct", "max_positions", "capital_per_leg_pct",
     "basis_lookback", "entry_zscore_threshold", "exit_zscore_threshold",
     "stop_loss_pct", "max_holding_days", "days_before_expiry_to_exit",
     "min_volume_ratio", "min_total_volume", "min_basis_std", "min_data_points",
     "lot_size_multiplier"}

\* self.strategy_config.<name>: FALSE stands for the AttributeError of a missing attribute
strategy_config_has(name) == name \in ArbitrageStrategyConfig_fields

\* the members of the SignalType enum
SignalType_members == {"LONG_FUTURES_SHORT_SPOT", "SHORT_FUTURES_LONG_SPOT", "CLOSE_POSITION"}

AttributeError == "AttributeError"
TypeError == "TypeError"
None == "None"

\* a mutant: the enum also has the two names the strategy code uses, as aliases
SignalType_with_aliases(name) ==
    IF name \in SignalType_members THEN name
    ELSE IF name = "LONG_SPOT_SHORT_FUTURES" THEN "SHORT_FUTURES_LONG_SPOT"
    ELSE IF name = "SHORT_SPOT_LONG_FUTURES" THEN "LONG_FUTURES_SHORT_SPOT"
    ELSE AttributeError

\* SignalType.<name>: the member, or the AttributeError the enum raises
SignalType(name) == IF name \in SignalType_members THEN name ELSE AttributeError

\* self.max_daily_loss = portfolio_value * 0.03
max_daily_loss == (portfolio_value * 3) \div 100

----------------------------------------------------------------------------
(* Helpers                                                                 *)

Abs(x) == IF x < 0 THEN -x ELSE x
Min(a, b) == IF a <= b THEN a ELSE b
Max(a, b) == IF a >= b THEN a ELSE b
Hour(t) == t \div 60
Minute(t) == t % 60
Range(s) == {s[i] : i \in 1..Len(s)}

\* a LiveQuote, or None
NoQuote == [present |-> FALSE, ltp |-> 0]
LiveQuote(ltp) == [present |-> TRUE, ltp |-> ltp]
NoSpread == [present |-> FALSE, spot_price |-> 0, futures_price |-> 0, spread |-> 0]

\* an entry of the log of a cycle
Ev(ev, sym, info) == [ev |-> ev, sym |-> sym, info |-> info]

\* a value of last_call
Call(op, symbol, t, returned, log) ==
    [op |-> op, symbol |-> symbol, t |-> t, returned |-> returned, log |-> log]
NoCall == Call("none", "", 0, None, <<>>)

\* dict operations on the ledger (a sequence of positions with distinct symbols)
Has(ps, symbol) == \E i \in 1..Len(ps) : ps[i].symbol = symbol
IndexOf(ps, symbol) == CHOOSE i \in 1..Len(ps) : ps[i].symbol = symbol
Get(ps, symbol) == ps[IndexOf(ps, symbol)]
Put(ps, symbol, p) == IF Has(ps, symbol) THEN [ps EXCEPT ![IndexOf(ps, symbol)] = p] ELSE Append(ps, p)
Del(ps, symbol) == SelectSeq(ps, LAMBDA q : q.symbol # symbol)
Keys(ps) == {ps[i].symbol : i \in 1..Len(ps)}

----------------------------------------------------------------------------
(* Ledger records (models/trading_models.py)                               *)

\* ArbitragePosition(...): the dataclass constructor with its defaults, then __post_init__
ArbitragePosition(symbol, signal_type, spot_quantity, futures_quantity, lot_size, entry_spot_price, entry_futures_price, entry_spread, target_spread, stop_loss_spread, days_to_expiry) ==
    [symbol |-> symbol, signal_type |-> signal_type,
     spot_quantity |-> spot_quantity, futures_quantity |-> futures_quantity,
     lot_size |-> lot_size,
     entry_spot_price |-> entry_spot_price, entry_futures_price |-> entry_futures_price,
     entry_spread |-> entry_spread,
     target_spread |-> target_spread, stop_loss_spread |-> stop_loss_spread,
     days_to_expiry |-> days_to_expiry,
     unrealized_pnl |-> 0, spot_pnl |-> 0, futures_pnl |-> 0,
     max_favorable_spread |-> 0, max_adverse_spread |-> 0,
     current_spot_price |-> 0, current_futures_price |-> 0, current_spread |-> 0,
     current_stop_spread |-> stop_loss_spread]

\* ArbitragePosition._calculate_pnl
_calculate_pnl(p) ==
    LET spot_pnl == IF p.spot_quantity > 0
                    THEN (p.current_spot_price - p.entry_spot_price) * p.spot_quantity
                    ELSE (p.entry_spot_price - p.current_spot_price) * Abs(p.spot_quantity)
        futures_pnl == IF p.futures_quantity > 0
                       THEN (p.current_futures_price - p.entry_futures_price) * p.futures_quantity
                       ELSE (p.entry_futures_price - p.current_futures_price) * Abs(p.futures_quantity)
    IN [p EXCEPT !.spot_pnl = spot_pnl, !.futures_pnl = futures_pnl,
                 !.unrealized_pnl = spot_pnl + futures_pnl]

\* min(x or float('inf'), c) and max(x or -float('inf'), c): a stored 0 is falsy
min_or_inf(x, c) == IF x = 0 THEN c ELSE Min(x, c)
max_or_neg_inf(x, c) == IF x = 0 THEN c ELSE Max(x, c)

\* ArbitragePosition.update_current_prices: the object is mutated in place, so what was
\* assigned before an exception stays assigned
update_current_prices(p, spot_price, futures_price) ==
    LET p1 == [p EXCEPT !.current_spot_price = spot_price,
                        !.current_futures_price = futures_price,
                        !.current_spread = futures_price - spot_price]
        p2 == _calculate_pnl(p1)
        member == SignalType("LONG_SPOT_SHORT_FUTURES")
    IN IF member = AttributeError
       THEN [raised |-> TRUE, position |-> p2]
       ELSE IF p2.signal_type = member
       THEN [raised |-> FALSE,
             position |-> [p2 EXCEPT
                 !.max_favorable_spread = min_or_inf(p2.max_favorable_spread, p2.current_spread),
                 !.max_adverse_spread = max_or_neg_inf(p2.max_adverse_spread, p2.current_spread)]]
       ELSE [raised |-> FALSE,
             position |-> [p2 EXCEPT
                 !.max_favorable_spread = max_or_neg_inf(p2.max_favorable_spread, p2.current_spread),
                 !.max_adverse_spread = min_or_inf(p2.max_adverse_spread, p2.current_spread)]]

\* an ArbitrageSignal, as far as the ledger reads it
ArbitrageSignal(symbol, signal_type, spot_price, futures_price, target_spread, stop_loss_spread, lot_size, quantity, confidence, days_to_expiry) ==
    [symbol |-> symbol, signal_type |-> signal_type,
     spot_price |-> spot_price, futures_price |-> futures_price,
     entry_spot_price |-> spot_price, entry_futures_price |-> futures_price,
     target_spread |-> target_spread, stop_loss_spread |-> stop_loss_spread,
     lot_size |-> lot_size, quantity |-> quantity,
     confidence |-> confidence, days_to_expiry |-> days_to_expiry]

\* create_position_from_signal
create_position_from_signal(signal) ==
    LET member == SignalType("LONG_SPOT_SHORT_FUTURES")
        long_spot == signal.signal_type = member
        spot_qty == IF long_spot THEN signal.lot_size * signal.quantity
                    ELSE -(signal.lot_size * signal.quantity)
        futures_qty == IF long_spot THEN -(signal.lot_size * signal.quantity)
                       ELSE signal.lot_size * signal.quantity
    IN IF member = AttributeError
       THEN [raised |-> TRUE]
       ELSE [raised |-> FALSE,
             position |-> ArbitragePosition(signal.symbol, signal.signal_type,
                              spot_qty, futures_qty, signal.lot_size,
                              signal.entry_spot_price, signal.entry_futures_price,
                              signal.futures_price - signal.spot_price,
                              signal.target_spread, signal.stop_loss_spread,
                              signal.days_to_expiry)]

\* the fields of ArbitrageTradeResult that __init__ takes and that have no default
ArbitrageTradeResult_required ==
    {"symbol", "signal_type", "entry_spot_price", "entry_futures_price", "entry_spread",
     "exit_spot_price", "exit_futures_price", "exit_spread", "quantity", "lot_size",
     "holding_period", "days_to_expiry_at_entry", "days_to_expiry_at_exit",
     "gross_pnl", "spot_pnl", "futures_pnl", "spread_change", "spread_change_pct",
     "exit_reason", "max_favorable_spread", "max_adverse_spread"}

\* ArbitrageTradeResult(**kw): TypeError when a required argument is missing, else the
\* record after __post_init__ (commission = slippage = 0)
ArbitrageTradeResult(kw) ==
    IF ~(ArbitrageTradeResult_required \subseteq DOMAIN kw)
    THEN [raised |-> TRUE]
    ELSE [raised |-> FALSE,
          trade |-> [symbol |-> kw.symbol, signal_type |-> kw.signal_type,
                     entry_spot_price |-> kw.entry_spot_price,
                     entry_futures_price |-> kw.entry_futures_price,
                     entry_spread |-> kw.entry_spread,
                     exit_spot_price |-> kw.exit_spot_price,
                     exit_futures_price |-> kw.exit_futures_price,
                     exit_spread |-> kw.exit_spread,
                     quantity |-> kw.quantity, lot_size |-> kw.lot_size,
                     gross_pnl |-> kw.gross_pnl, spot_pnl |-> kw.spot_pnl,
                     futures_pnl |-> kw.futures_pnl,
                     net_pnl |-> kw.gross_pnl - 0 - 0,
                     spread_change |-> kw.exit_spread - kw.entry_spread,
                     exit_reason |-> kw.exit_reason,
                     max_favorable_spread |-> kw.max_favorable_spread,
                     max_adverse_spread |-> kw.max_adverse_spread]]

\* create_trade_result_from_position
create_trade_result_from_position(position, exit_spot_price, exit_futures_price, exit_reason) ==
    LET exit_spread == exit_futures_price - exit_spot_price
        spot_pnl == IF position.spot_quantity > 0
                    THEN (exit_spot_price - position.entry_spot_price) * position.spot_quantity
                    ELSE (position.entry_spot_price - exit_spot_price) * Abs(position.spot_quantity)
        futures_pnl == IF position.futures_quantity > 0
                       THEN (exit_futures_price - position.entry_futures_price) * position.futures_quantity
                       ELSE (position.entry_futures_price - exit_futures_price) * Abs(position.futures_quantity)
    IN ArbitrageTradeResult(
         [symbol |-> position.symbol, signal_type |-> position.signal_type,
          entry_spot_price |-> position.entry_spot_price,
          entry_futures_price |-> position.entry_futures_price,
          entry_spread |-> position.entry_spread,
          exit_spot_price |-> exit_spot_price, exit_futures_price |-> exit_futures_price,
          exit_spread |-> exit_spread,
          quantity |-> Abs(position.spot_quantity) \div position.lot_size,
          lot_size |-> position.lot_size,
          days_to_expiry_at_entry |-> position.days_to_expiry,
          days_to_expiry_at_exit |-> position.days_to_expiry,
          gross_pnl |-> spot_pnl + futures_pnl,
          spot_pnl |-> spot_pnl, futures_pnl |-> futures_pnl,
          exit_reason |-> exit_reason,
          max_favorable_spread |-> position.max_favorable_spread,
          max_adverse_spread |-> position.max_adverse_spread])

\* MarketState(...): the flags of the strategy state, with their defaults
MarketState == [max_positions_reached |-> FALSE, daily_loss_limit_hit |-> FALSE]

\* StrategyMetrics(): the counts and sums, with their defaults
StrategyMetrics ==
    [total_trades |-> 0, winning_trades |-> 0, losing_trades |-> 0,
     total_pnl |-> 0, gross_profit |-> 0, gross_loss |-> 0,
     long_spot_trades |-> 0, short_spot_trades |-> 0, daily_pnl |-> 0]

RECURSIVE SumOf(_, _)
\* sum(f(t) for t in trades)
SumOf(f(_), trades) == IF trades = <<>> THEN 0 ELSE f(Head(trades)) + SumOf(f, Tail(trades))

\* update_metrics adding the counts and sums of the list to the stored ones
update_metrics_accumulating(m, trades) ==
    LET wins == Len(SelectSeq(trades, LAMBDA t : t.net_pnl > 0))
        m1 == [m EXCEPT !.total_trades = @ + Len(trades),
                        !.winning_trades = @ + wins,
                        !.losing_trades = @ + Len(trades) - wins,
                        !.total_pnl = @ + SumOf(LAMBDA t : t.net_pnl, trades),
                        !.gross_profit = @ + SumOf(LAMBDA t : IF t.net_pnl > 0 THEN t.net_pnl ELSE 0, trades),
                        !.gross_loss = @ + SumOf(LAMBDA t : IF t.net_pnl < 0 THEN t.net_pnl ELSE 0, trades)]
    IN IF trades = <<>> THEN [raised |-> FALSE, metrics |-> m]
       ELSE [raised |-> TRUE, metrics |-> m1]

\* StrategyMetrics.update_metrics: what is assigned before the lookup of line 337 raises
\* stays assigned
update_metrics(m, trades) ==
    LET wins == Len(SelectSeq(trades, LAMBDA t : t.net_pnl > 0))
        m1 == [m EXCEPT !.total_trades = Len(trades),
                        !.winning_trades = wins,
                        !.losing_trades = Len(trades) - wins,
                        !.total_pnl = SumOf(LAMBDA t : t.net_pnl, trades),
                        !.gross_profit = SumOf(LAMBDA t : IF t.net_pnl > 0 THEN t.net_pnl ELSE 0, trades),
                        !.gross_loss = SumOf(LAMBDA t : IF t.net_pnl < 0 THEN t.net_pnl ELSE 0, trades)]
        long_member == SignalType("LONG_SPOT_SHORT_FUTURES")
        short_member == SignalType("SHORT_SPOT_LONG_FUTURES")
    IN IF trades = <<>> THEN [raised |-> FALSE, metrics |-> m]
       ELSE IF long_member = AttributeError \/ short_member = AttributeError
       THEN [raised |-> TRUE, metrics |-> m1]
       ELSE [raised |-> FALSE,
             metrics |-> [m1 EXCEPT
                 !.long_spot_trades = Len(SelectSeq(trades, LAMBDA t : t.signal_type = long_member)),
                 !.short_spot_trades = Len(SelectSeq(trades, LAMBDA t : t.signal_type = short_member))]]

----------------------------------------------------------------------------
(* The strategy (strategy/arbitrage_strategy.py).  An operation is a       *)
(* function of the strategy object st (a record of its attributes and the  *)
(* log of the running cycle) and returns the object after the call.        *)

\* SpotFuturesArbitrageStrategy.calculate_spread, as far as the cycle reads the result
calculate_spread(st, symbol) ==
    LET spot_quote == st.spot_quotes[symbol]
        futures_quote == st.futures_quotes[symbol]
    IN IF ~spot_quote.present \/ ~futures_quote.present
       THEN NoSpread
       ELSE [present |-> TRUE, spot_price |-> spot_quote.ltp,
             futures_price |-> futures_quote.ltp,
             spread |-> futures_quote.ltp - spot_quote.ltp]

\* _update_all_spreads
RECURSIVE update_spreads_from(_, _)
update_spreads_from(st, i) ==
    IF i > Len(trading_symbols) THEN st
    ELSE LET symbol == trading_symbols[i]
             spread == calculate_spread(st, symbol)
         IN IF spread.present
            THEN update_spreads_from([st EXCEPT !.current_spreads[symbol] = spread], i + 1)
            ELSE update_spreads_from(st, i + 1)

_update_all_spreads(st) == update_spreads_from(st, 1)

\* evaluate_arbitrage_opportunity: its first test reads strategy_config.min_spread_threshold,
\* which no ArbitrageStrategyConfig has; the AttributeError is caught (lines 252-254)
\* and the result is None
evaluate_arbitrage_opportunity(st, symbol, spread) ==
    CASE ~strategy_config_has("min_spread_threshold") -> [present |-> FALSE]

\* execute_signal
execute_signal(st, signal) ==
    LET made == create_position_from_signal(signal)
    IN IF made.raised
       THEN [st EXCEPT !.log = Append(@, Ev("open_failed", signal.symbol, AttributeError))]
       ELSE [st EXCEPT !.positions = Put(@, signal.symbol, made.position),
                       !.signals_generated_today = Append(@, signal.symbol),
                       !.log = Append(@, Ev("open", signal.symbol, signal.signal_type))]

\* _check_exit_conditions: the exit reason, None, or the AttributeError it raises
_check_exit_conditions(position, t) ==
    LET current_spread == position.current_spread
        member == SignalType("LONG_SPOT_SHORT_FUTURES")
    IN IF member = AttributeError THEN AttributeError
       ELSE IF position.signal_type = member /\ current_spread <= position.target_spread
       THEN "TARGET"
       ELSE IF position.signal_type # member /\ current_spread >= position.target_spread
       THEN "TARGET"
       ELSE IF position.signal_type = member /\ current_spread >= position.current_stop_spread
       THEN "STOP_LOSS"
       ELSE IF position.signal_type # member /\ current_spread <= position.current_stop_spread
       THEN "STOP_LOSS"
       ELSE IF position.days_to_expiry <= 3 THEN "EXPIRY_EXIT"
       ELSE IF Hour(t) >= 15 /\ Minute(t) >= 15 THEN "TIME_EXIT"
       ELSE None

\* _close_position with a failed close that starts the day's P&L again at 0
_close_position_resetting_daily_pnl(st, symbol, reason) ==
    IF ~Has(st.positions, symbol) THEN st
    ELSE IF ~st.spot_quotes[symbol].present \/ ~st.futures_quotes[symbol].present
    THEN [st EXCEPT !.log = Append(@, Ev("close_failed", symbol, "missing quotes"))]
    ELSE LET made == create_trade_result_from_position(
                         Get(st.positions, symbol), st.spot_quotes[symbol].ltp,
                         st.futures_quotes[symbol].ltp, reason)
         IN IF made.raised
            THEN [st EXCEPT !.daily_pnl = 0,
                            !.log = Append(@, Ev("close_failed", symbol, TypeError))]
            ELSE [st EXCEPT !.daily_pnl = @ + made.trade.net_pnl,
                            !.completed_trades = Append(@, made.trade),
                            !.positions = Del(@, symbol),
                            !.log = Append(@, Ev("close", symbol, reason))]

\* _close_position that drops a position whose quotes are missing
_close_position_dropping_unquoted(st, symbol, reason) ==
    IF ~Has(st.positions, symbol) THEN st
    ELSE IF ~st.spot_quotes[symbol].present \/ ~st.futures_quotes[symbol].present
    THEN [st EXCEPT !.positions = Del(@, symbol),
                    !.log = Append(@, Ev("close_failed", symbol, "missing quotes"))]
    ELSE LET made == create_trade_result_from_position(
                         Get(st.positions, symbol), st.spot_quotes[symbol].ltp,
                         st.futures_quotes[symbol].ltp, reason)
         IN IF made.raised
            THEN [st EXCEPT !.log = Append(@, Ev("close_failed", symbol, TypeError))]
            ELSE [st EXCEPT !.daily_pnl = @ + made.trade.net_pnl,
                            !.completed_trades = Append(@, made.trade),
                            !.positions = Del(@, symbol),
                            !.log = Append(@, Ev("close", symbol, reason))]

\* _close_position
_close_position(st, symbol, reason) ==
    IF ~Has(st.positions, symbol) THEN st
    ELSE IF ~st.spot_quotes[symbol].present \/ ~st.futures_quotes[symbol].present
    THEN [st EXCEPT !.log = Append(@, Ev("close_failed", symbol, "missing quotes"))]
    ELSE LET made == create_trade_result_from_position(
                         Get(st.positions, symbol), st.spot_quotes[symbol].ltp,
                         st.futures_quotes[symbol].ltp, reason)
         IN IF made.raised
            THEN [st EXCEPT !.log = Append(@, Ev("close_failed", symbol, TypeError))]
            ELSE [st EXCEPT !.daily_pnl = @ + made.trade.net_pnl,
                            !.completed_trades = Append(@, made.trade),
                            !.positions = Del(@, symbol),
                            !.log = Append(@, Ev("close", symbol, reason))]

\* monitor_positions, first loop: update each position and collect the exits; an
\* exception leaves the loop and the method (lines 335-336)
RECURSIVE monitor_from(_, _, _, _)
monitor_from(st, i, positions_to_close, t) ==
    IF i > Len(st.positions)
    THEN [st |-> st, positions_to_close |-> positions_to_close, raised |-> FALSE]
    ELSE LET symbol == st.positions[i].symbol
             spot_quote == st.spot_quotes[symbol]
             futures_quote == st.futures_quotes[symbol]
             updated == update_current_prices(st.positions[i], spot_quote.ltp, futures_quote.ltp)
             st1 == [st EXCEPT !.positions[i] = updated.position,
                               !.log = Append(@, Ev("update", symbol, ""))]
             exit_reason == _check_exit_conditions(updated.position, t)
         IN IF ~spot_quote.present \/ ~futures_quote.present
            THEN monitor_from(st, i + 1, positions_to_close, t)
            ELSE IF updated.raised \/ exit_reason = AttributeError
            THEN [st |-> [st1 EXCEPT !.log = Append(@, Ev("raise", symbol, AttributeError))],
                  positions_to_close |-> positions_to_close, raised |-> TRUE]
            ELSE IF exit_reason # None
            THEN monitor_from(st1, i + 1,
                              Append(positions_to_close, [symbol |-> symbol, reason |-> exit_reason]), t)
            ELSE monitor_from(st1, i + 1, positions_to_close, t)

\* monitor_positions, second loop
RECURSIVE close_from(_, _, _)
close_from(st, positions_to_close, i) ==
    IF i > Len(positions_to_close) THEN st
    ELSE close_from(_close_position(st, positions_to_close[i].symbol,
                                    positions_to_close[i].reason),
                    positions_to_close, i + 1)

\* monitor_positions
monitor_positions(st, t) ==
    LET start == [st EXCEPT !.log = Append(@, Ev("monitor_positions", "", ""))]
        first == monitor_from(start, 1, <<>>, t)
    IN IF first.raised THEN first.st
       ELSE close_from(first.st, first.positions_to_close, 1)

\* _should_scan_for_opportunities without the test of the position count (lines 443-444)
_should_scan_without_position_cap(st, t) ==
    IF st.daily_pnl < -Abs(max_daily_loss) THEN FALSE
    ELSE IF Hour(t) >= 15 THEN FALSE
    ELSE TRUE

\* _should_scan_for_opportunities without the test of the daily loss (lines 446-448)
_should_scan_without_loss_limit(st, t) ==
    IF Len(st.positions) >= max_positions THEN FALSE
    ELSE IF Hour(t) >= 15 THEN FALSE
    ELSE TRUE

\* _should_scan_for_opportunities without the test of the hour (lines 451-453)
_should_scan_without_time_cutoff(st, t) ==
    IF Len(st.positions) >= max_positions THEN FALSE
    ELSE IF st.daily_pnl < -Abs(max_daily_loss) THEN FALSE
    ELSE TRUE

\* _should_scan_for_opportunities
_should_scan_for_opportunities(st, t) ==
    IF Len(st.positions) >= max_positions THEN FALSE
    ELSE IF st.daily_pnl < -Abs(max_daily_loss) THEN FALSE
    ELSE IF Hour(t) >= 15 THEN FALSE
    ELSE TRUE

\* _scan_opportunities, first loop: the signals of the flat symbols
RECURSIVE signals_from(_, _, _)
signals_from(st, i, signals) ==
    IF i > Len(trading_symbols) THEN signals
    ELSE LET symbol == trading_symbols[i]
             spread == st.current_spreads[symbol]
             signal == evaluate_arbitrage_opportunity(st, symbol, spread)
         IN IF Has(st.positions, symbol) THEN signals_from(st, i + 1, signals)
            ELSE IF ~spread.present THEN signals_from(st, i + 1, signals)
            ELSE IF signal.present THEN signals_from(st, i + 1, Append(signals, signal.signal))
            ELSE signals_from(st, i + 1, signals)

\* signals.sort(key=lambda x: x.confidence, reverse=True): a stable insertion sort
RECURSIVE insert_by_confidence(_, _)
insert_by_confidence(sorted, signal) ==
    IF sorted = <<>> THEN <<signal>>
    ELSE IF Head(sorted).confidence >= signal.confidence
    THEN <<Head(sorted)>> \o insert_by_confidence(Tail(sorted), signal)
    ELSE <<signal>> \o sorted

RECURSIVE sort_by_confidence(_, _, _)
sort_by_confidence(signals, i, sorted) ==
    IF i > Len(signals) THEN sorted
    ELSE sort_by_confidence(signals, i + 1, insert_by_confidence(sorted, signals[i]))

\* signals[:k]
slice_to(signals, k) ==
    IF k >= 0 THEN SubSeq(signals, 1, Min(k, Len(signals)))
    ELSE SubSeq(signals, 1, Max(Len(signals) + k, 0))

\* _scan_opportunities, second loop
RECURSIVE execute_from(_, _, _)
execute_from(st, signals, i) ==
    IF i > Len(signals) THEN st
    ELSE execute_from(execute_signal(st, signals[i]), signals, i + 1)

\* _scan_opportunities
_scan_opportunities(st) ==
    LET start == [st EXCEPT !.log = Append(@, Ev("_scan_opportunities", "", ""))]
        signals == sort_by_confidence(signals_from(start, 1, <<>>), 1, <<>>)
        available_slots == max_positions - Len(start.positions)
        top == slice_to(signals, available_slots)
    IN execute_from(start, top, 1)

\* _update_market_state
_update_market_state(st) ==
    [st EXCEPT !.market_state.max_positions_reached = Len(st.positions) >= max_positions,
               !.market_state.daily_loss_limit_hit = st.daily_pnl < -Abs(max_daily_loss)]

\* _update_metrics: an exception of update_metrics ends the cycle (lines 426-427)
_update_metrics(st) ==
    LET updated == update_metrics(st.metrics, st.completed_trades)
    IN IF updated.raised
       THEN [st EXCEPT !.metrics = updated.metrics,
                       !.log = Append(@, Ev("metrics_failed", "", AttributeError))]
       ELSE [st EXCEPT !.metrics = [updated.metrics EXCEPT !.daily_pnl = st.daily_pnl]]

\* run_strategy_cycle with the two phases exchanged: entries first, exits second
run_strategy_cycle_entries_first(st, t) ==
    LET spreads == _update_all_spreads(_update_market_state([st EXCEPT !.log = <<>>]))
        scanned == IF _should_scan_for_opportunities(spreads, t)
                   THEN _scan_opportunities(spreads)
                   ELSE spreads
    IN _update_metrics(monitor_positions(scanned, t))

\* F applied to the value of v: the object one call leaves is the object the next call
\* works on
Then(v, F(_)) == CHOOSE r \in {F(x) : x \in {v}} : TRUE

\* run_strategy_cycle
run_strategy_cycle(st, t) ==
    Then(_update_all_spreads(_update_market_state([st EXCEPT !.log = <<>>])), LAMBDA spreads :
    Then(monitor_positions(spreads, t), LAMBDA monitored :
    Then(IF _should_scan_for_opportunities(monitored, t)
         THEN _scan_opportunities(monitored)
         ELSE monitored, LAMBDA scanned : _update_metrics(scanned))))

----------------------------------------------------------------------------
(* The z-score analyzer (services/analysis_service.py).                    *)
(*                                                                         *)
(* A basis percentage is a whole number of hundredths of a percent.  Over  *)
(* a window of n values with sum S and sum of squares Q the mean is S/n    *)
(* and the population variance is (n*Q - S*S)/(n*n); a z-score             *)
(* (x - mean)/std = (n*x - S)/sqrt(n*Q - S*S) is kept exactly as the pair  *)
(* [n |-> numerator, v |-> radicand].  Thresholds are in tenths.           *)

\* BASIS_LOOKBACK (main.py:77), scaled down
basis_lookback == 2
\* the 200 of max(config.basis_lookback * 3, 200), scaled down
history_floor == 4
\* min_basis_std = 0.01, in hundredths of a percent
min_basis_std == 1
\* entry_zscore_threshold = 2.0 and exit_zscore_threshold = 0.5, in tenths
entry_zscore_threshold_x10 == 20
exit_zscore_threshold_x10 == 5
\* min_volume_ratio = 0.3, in tenths
min_volume_ratio_x10 == 3
min_total_volume == 5000
capital_per_leg_pct == 50
stop_loss_pct == 1

\* ZScoreArbitrageAnalyzer.__init__: self.max_history_length
max_history_length == Max(basis_lookback * 3, history_floor)

RECURSIVE SumSeq(_)
SumSeq(xs) == IF xs = <<>> THEN 0 ELSE Head(xs) + SumSeq(Tail(xs))
Squares(xs) == [i \in 1..Len(xs) |-> xs[i] * xs[i]]
SeqMin(xs) == CHOOSE m \in Range(xs) : \A x \in Range(xs) : m <= x
SeqMax(xs) == CHOOSE m \in Range(xs) : \A x \in Range(xs) : m >= x
\* history[-k:]
LastK(xs, k) == IF Len(xs) <= k THEN xs ELSE SubSeq(xs, Len(xs) - k + 1, Len(xs))

\* n*n times the population variance np.std(window)**2
VarNum(window) == Len(window) * SumSeq(Squares(window)) - SumSeq(window) * SumSeq(window)
\* the test of line 97 against zero instead of min_basis_std
StdAboveZero(var_num, var_den) == var_num > 0

\* np.std(window) > min_basis_std
StdAbove(var_num, var_den) == var_num > min_basis_std * min_basis_std * var_den

ZeroZ == [n |-> 0, v |-> 1]
\* z > t/10, z < -t/10 and |z| < t/10, for t >= 0
ZAbove(z, t_x10) == z.n > 0 /\ 100 * z.n * z.n > t_x10 * t_x10 * z.v
ZBelowMinus(z, t_x10) == z.n < 0 /\ 100 * z.n * z.n > t_x10 * t_x10 * z.v
ZAbsBelow(z, t_x10) == 100 * z.n * z.n < t_x10 * t_x10 * z.v

\* the analyzer object
Analyzer(history, count) == [basis_history |-> history, data_point_count |-> count]

\* update_basis_history with a deque that drops its newest entry when full
update_basis_history_keeping_oldest(an, symbol, basis_pct) ==
    LET old == an.basis_history[symbol]
    IN Analyzer([an.basis_history EXCEPT ![symbol] =
                    IF Len(old) >= max_history_length THEN old ELSE Append(old, basis_pct)],
                [an.data_point_count EXCEPT ![symbol] = @ + 1])

\* update_basis_history: a deque(maxlen=max_history_length) drops its oldest entry when full
update_basis_history(an, symbol, basis_pct) ==
    LET old == an.basis_history[symbol]
        appended == Append(old, basis_pct)
    IN Analyzer([an.basis_history EXCEPT ![symbol] =
                    IF Len(appended) > max_history_length THEN Tail(appended) ELSE appended],
                [an.data_point_count EXCEPT ![symbol] = @ + 1])

\* calculate_basis_statistics: the analyzer after the call and the statistics returned
calculate_basis_statistics(an, symbol, current_basis_pct) ==
    LET an1 == update_basis_history(an, symbol, current_basis_pct)
        history == an1.basis_history[symbol]
        window_data == LastK(history, basis_lookback)
        n == Len(window_data)
        var_num == VarNum(window_data)
    IN IF Len(history) < basis_lookback
       THEN [analyzer |-> an1,
             stats |-> [has_sufficient_data |-> FALSE, data_points |-> Len(history),
                        mean_num |-> 0, mean_den |-> 1, var_num |-> 0, var_den |-> 1,
                        std_is_nan |-> FALSE, z_score |-> ZeroZ,
                        min |-> current_basis_pct, max |-> current_basis_pct]]
       ELSE [analyzer |-> an1,
             stats |-> [has_sufficient_data |-> TRUE, data_points |-> Len(history),
                        mean_num |-> SumSeq(window_data), mean_den |-> n,
                        var_num |-> var_num, var_den |-> n * n, std_is_nan |-> FALSE,
                        z_score |-> IF StdAbove(var_num, n * n)
                                    THEN [n |-> n * current_basis_pct - SumSeq(window_data),
                                          v |-> var_num]
                                    ELSE ZeroZ,
                        min |-> SeqMin(history), max |-> SeqMax(history)]]

\* int(a / b) for b # 0: the quotient truncated towards zero
TruncDiv(a, b) == IF (a >= 0) = (b > 0) THEN Abs(a) \div Abs(b) ELSE -(Abs(a) \div Abs(b))

\* a fraction num/den
Frac(num, den) == [num |-> num, den |-> den]

\* SpotFuturesSpread(...) and its __post_init__; spread_pct in hundredths of a percent
SpotFuturesSpread(symbol, spot_price, futures_price, spot_volume, futures_volume, volume_ratio, days_to_expiry) ==
    [symbol |-> symbol, spot_price |-> spot_price, futures_price |-> futures_price,
     spread |-> futures_price - spot_price,
     spread_pct |-> IF spot_price > 0
                    THEN Frac((futures_price - spot_price) * 10000, spot_price)
                    ELSE Frac(0, 1),
     spot_volume |-> spot_volume, futures_volume |-> futures_volume,
     volume_ratio |-> IF spot_volume > 0 THEN Frac(futures_volume, spot_volume)
                      ELSE volume_ratio,
     days_to_expiry |-> days_to_expiry]

\* the branch of generate_entry_signal with the directions exchanged
entry_signal_type_reversed(z_score) ==
    IF ZBelowMinus(z_score, entry_zscore_threshold_x10) THEN "SHORT_FUTURES_LONG_SPOT"
    ELSE IF ZAbove(z_score, entry_zscore_threshold_x10) THEN "LONG_FUTURES_SHORT_SPOT"
    ELSE None

\* generate_entry_signal, lines 157-173: the direction of the entry, or None
entry_signal_type(z_score) ==
    IF ZBelowMinus(z_score, entry_zscore_threshold_x10) THEN SignalType("LONG_FUTURES_SHORT_SPOT")
    ELSE IF ZAbove(z_score, entry_zscore_threshold_x10) THEN SignalType("SHORT_FUTURES_LONG_SPOT")
    ELSE None

\* symbol_manager.get_lot_size(symbol) or 1
lot_size_or_1 == [s \in {"A", "B", "C"} |-> 250]

\* _calculate_position_size without the minimum of one lot
_calculate_position_size_without_minimum(symbol, spot_price, futures_price) ==
    LET lot_size == lot_size_or_1[symbol]
        capital_per_leg == (portfolio_value * capital_per_leg_pct) \div 100
    IN IF spot_price = 0 THEN 0
       ELSE TruncDiv(capital_per_leg, spot_price) \div lot_size

\* _calculate_position_size: a ZeroDivisionError is caught and gives 0
_calculate_position_size(symbol, spot_price, futures_price) ==
    LET lot_size == lot_size_or_1[symbol]
        capital_per_leg == (portfolio_value * capital_per_leg_pct) \div 100
    IN IF spot_price = 0 THEN 0
       ELSE Max(1, TruncDiv(capital_per_leg, spot_price) \div lot_size)

\* _calculate_target_spread, in rupees
_calculate_target_spread(an, spread, signal_type) ==
    LET history == an.basis_history[spread.symbol]
        window == LastK(history, basis_lookback)
    IN IF history # <<>> /\ Len(history) >= basis_lookback
       THEN Frac(SumSeq(window) * spread.spot_price, Len(window) * 10000)
       ELSE Frac(spread.spread, 2)

\* _calculate_stop_loss_spread, in rupees
_calculate_stop_loss_spread(spread, signal_type) ==
    IF signal_type = SignalType("LONG_FUTURES_SHORT_SPOT")
    THEN Frac(spread.spread * (100 - stop_loss_pct), 100)
    ELSE Frac(spread.spread * (100 + stop_loss_pct), 100)

\* _calculate_confidence_from_zscore: min(|z| / 3, 1), kept like a z-score
_calculate_confidence_from_zscore(z_score) ==
    IF z_score.n * z_score.n >= 9 * z_score.v THEN [n |-> 1, v |-> 1]
    ELSE [n |-> Abs(z_score.n), v |-> 9 * z_score.v]

NoSignal == [present |-> FALSE]

\* generate_entry_signal with a gate that drops a signal whose confidence is below 0.9
generate_entry_signal_with_confidence_gate(an, symbol, spread, stats) ==
    LET z_score == stats.z_score
        signal_type == entry_signal_type(z_score)
        quantity == _calculate_position_size(symbol, spread.spot_price, spread.futures_price)
        lot_size == lot_size_or_1[symbol]
        confidence == _calculate_confidence_from_zscore(z_score)
    IN IF ~stats.has_sufficient_data THEN NoSignal
       ELSE IF ~stats.std_is_nan /\ stats.var_num <= min_basis_std * min_basis_std * stats.var_den
       THEN NoSignal
       ELSE IF 10 * spread.volume_ratio.num < min_volume_ratio_x10 * spread.volume_ratio.den
       THEN NoSignal
       ELSE IF spread.spot_volume + spread.futures_volume < min_total_volume THEN NoSignal
       ELSE IF signal_type = None THEN NoSignal
       ELSE IF quantity = 0 THEN NoSignal
       ELSE IF 100 * confidence.n * confidence.n < 81 * confidence.v THEN NoSignal
       ELSE [present |-> TRUE, symbol |-> symbol, signal_type |-> signal_type,
             spot_price |-> spread.spot_price, futures_price |-> spread.futures_price,
             spread_pct |-> spread.spread_pct,
             mispricing |-> Frac(spread.spread_pct.num * stats.mean_den
                                    - stats.mean_num * spread.spread_pct.den,
                                 spread.spread_pct.den * stats.mean_den),
             entry_spot_price |-> spread.spot_price,
             entry_futures_price |-> spread.futures_price,
             target_spread |-> _calculate_target_spread(an, spread, signal_type),
             stop_loss_spread |-> _calculate_stop_loss_spread(spread, signal_type),
             lot_size |-> lot_size, quantity |-> quantity,
             capital_required |-> quantity * lot_size * spread.spot_price * 2,
             confidence |-> _calculate_confidence_from_zscore(z_score),
             z_score |-> z_score, volume_ratio |-> spread.volume_ratio,
             days_to_expiry |-> spread.days_to_expiry]

\* generate_entry_signal; a std that is NaN (stats.std_is_nan) compares False with
\* everything, so `basis_std <= min_basis_std` (line 143) does not hold for it
generate_entry_signal(an, symbol, spread, stats) ==
    LET z_score == stats.z_score
        signal_type == entry_signal_type(z_score)
        quantity == _calculate_position_size(symbol, spread.spot_price, spread.futures_price)
        lot_size == lot_size_or_1[symbol]
    IN IF ~stats.has_sufficient_data THEN NoSignal
       ELSE IF ~stats.std_is_nan /\ stats.var_num <= min_basis_std * min_basis_std * stats.var_den
       THEN NoSignal
       ELSE IF 10 * spread.volume_ratio.num < min_volume_ratio_x10 * spread.volume_ratio.den
       THEN NoSignal
       ELSE IF spread.spot_volume + spread.futures_volume < min_total_volume THEN NoSignal
       ELSE IF signal_type = None THEN NoSignal
       ELSE IF quantity = 0 THEN NoSignal
       ELSE [present |-> TRUE, symbol |-> symbol, signal_type |-> signal_type,
             spot_price |-> spread.spot_price, futures_price |-> spread.futures_price,
             spread_pct |-> spread.spread_pct,
             mispricing |-> Frac(spread.spread_pct.num * stats.mean_den
                                    - stats.mean_num * spread.spread_pct.den,
                                 spread.spread_pct.den * stats.mean_den),
             entry_spot_price |-> spread.spot_price,
             entry_futures_price |-> spread.futures_price,
             target_spread |-> _calculate_target_spread(an, spread, signal_type),
             stop_loss_spread |-> _calculate_stop_loss_spread(spread, signal_type),
             lot_size |-> lot_size, quantity |-> quantity,
             capital_required |-> quantity * lot_size * spread.spot_price * 2,
             confidence |-> _calculate_confidence_from_zscore(z_score),
             z_score |-> z_score, volume_ratio |-> spread.volume_ratio,
             days_to_expiry |-> spread.days_to_expiry]

\* _check_stop_loss: the result, or the ZeroDivisionError of a position without notional
_check_stop_loss(position, current_spread) ==
    LET total_position_value == Abs(position.entry_spot_price * position.spot_quantity * 2)
    IN IF position.unrealized_pnl = 0 THEN "False"
       ELSE IF total_position_value = 0 THEN "ZeroDivisionError"
       ELSE IF /\ position.unrealized_pnl < 0
               /\ Abs(position.unrealized_pnl) * 100 >= stop_loss_pct * total_position_value
       THEN "True"
       ELSE "False"

\* spread.spread_pct as the observation appended to the history, in hundredths of a
\* percent (a whole number for the snapshots of the model)
basis_pct_of(spread) == spread.spread_pct.num \div spread.spread_pct.den

\* the pair (should_exit, exit_reason)
ExitDecision(should_exit, exit_reason) == [should_exit |-> should_exit, exit_reason |-> exit_reason]

\* check_exit_signal with the stop-loss test before the convergence test
check_exit_signal_stop_loss_first(an, symbol, position, current_spread) ==
    LET r == calculate_basis_statistics(an, symbol, basis_pct_of(current_spread))
        stop == _check_stop_loss(position, current_spread)
    IN [analyzer |-> r.analyzer, stats |-> r.stats,
        exit |-> IF ~r.stats.has_sufficient_data THEN ExitDecision(FALSE, "")
                 ELSE IF stop = "ZeroDivisionError" THEN ExitDecision(FALSE, "")
                 ELSE IF stop = "True" THEN ExitDecision(TRUE, "STOP_LOSS")
                 ELSE IF ZAbsBelow(r.stats.z_score, exit_zscore_threshold_x10)
                 THEN ExitDecision(TRUE, "BASIS_CONVERGENCE")
                 ELSE ExitDecision(FALSE, "")]

\* check_exit_signal reading the statistics without recording the observation
check_exit_signal_without_update(an, symbol, position, current_spread) ==
    LET r == calculate_basis_statistics(an, symbol, basis_pct_of(current_spread))
        stop == _check_stop_loss(position, current_spread)
    IN [analyzer |-> an, stats |-> r.stats,
        exit |-> IF ~r.stats.has_sufficient_data THEN ExitDecision(FALSE, "")
                 ELSE IF ZAbsBelow(r.stats.z_score, exit_zscore_threshold_x10)
                 THEN ExitDecision(TRUE, "BASIS_CONVERGENCE")
                 ELSE IF stop = "ZeroDivisionError" THEN ExitDecision(FALSE, "")
                 ELSE IF stop = "True" THEN ExitDecision(TRUE, "STOP_LOSS")
                 ELSE ExitDecision(FALSE, "")]

\* check_exit_signal that gives no exit while the window is not volatile enough
check_exit_signal_requiring_volatility(an, symbol, position, current_spread) ==
    LET r == calculate_basis_statistics(an, symbol, basis_pct_of(current_spread))
        stop == _check_stop_loss(position, current_spread)
    IN [analyzer |-> r.analyzer, stats |-> r.stats,
        exit |-> IF ~r.stats.has_sufficient_data THEN ExitDecision(FALSE, "")
                 ELSE IF ~StdAbove(r.stats.var_num, r.stats.var_den) THEN ExitDecision(FALSE, "")
                 ELSE IF ZAbsBelow(r.stats.z_score, exit_zscore_threshold_x10)
                 THEN ExitDecision(TRUE, "BASIS_CONVERGENCE")
                 ELSE IF stop = "ZeroDivisionError" THEN ExitDecision(FALSE, "")
                 ELSE IF stop = "True" THEN ExitDecision(TRUE, "STOP_LOSS")
                 ELSE ExitDecision(FALSE, "")]

\* check_exit_signal: the analyzer after the call, the statistics it computed and the
\* pair it returns; an exception gives (False, "") (lines 254-256)
check_exit_signal(an, symbol, position, current_spread) ==
    LET r == calculate_basis_statistics(an, symbol, basis_pct_of(current_spread))
        stop == _check_stop_loss(position, current_spread)
    IN [analyzer |-> r.analyzer, stats |-> r.stats,
        exit |-> IF ~r.stats.has_sufficient_data THEN ExitDecision(FALSE, "")
                 ELSE IF ZAbsBelow(r.stats.z_score, exit_zscore_threshold_x10)
                 THEN ExitDecision(TRUE, "BASIS_CONVERGENCE")
                 ELSE IF stop = "ZeroDivisionError" THEN ExitDecision(FALSE, "")
                 ELSE IF stop = "True" THEN ExitDecision(TRUE, "STOP_LOSS")
                 ELSE ExitDecision(FALSE, "")]

\* the symbols the analyzer is asked about
AnalyzerSymbols == {"A", "B"}
\* basis percentages, in hundredths of a percent
BasisValues == {0, 1, 5}
\* the number of observations handed to the analyzer
MaxObservations == 7

NoStats == [has_sufficient_data |-> FALSE, data_points |-> 0,
            mean_num |-> 0, mean_den |-> 1, var_num |-> 0, var_den |-> 1,
            std_is_nan |-> FALSE, z_score |-> ZeroZ, min |-> 0, max |-> 0]
NoSpreadInput == SpotFuturesSpread("", 0, 0, 0, 0, Frac(0, 1), 0)
NoPosition == [present |-> FALSE]
NoAnalysis == [op |-> "none", symbol |-> "", basis |-> 0, spread |-> NoSpreadInput,
               stats |-> NoStats, signal |-> NoSignal,
               position |-> NoPosition, exit |-> ExitDecision(FALSE, "")]

----------------------------------------------------------------------------
(* The state machine                                                       *)

\* the strategy object
St == [positions |-> positions, completed_trades |-> completed_trades,
       daily_pnl |-> daily_pnl, spot_quotes |-> spot_quotes,
       futures_quotes |-> futures_quotes, current_spreads |-> current_spreads,
       signals_generated_today |-> signals_generated_today,
       market_state |-> market_state, metrics |-> metrics, log |-> <<>>]

----------------------------------------------------------------------------
(* The hybrid data service (services/fyers_websocket_service.py).  A       *)
(* service held by the hybrid is a record of its is_connected flag and its *)
(* list of callbacks; NoService stands for an attribute that is None.      *)

\* ArbitrageWebSocketService(...) and ArbitrageFallbackDataService(...), as far as the
\* hybrid reads them
DataService(is_connected, callbacks) == [present |-> TRUE, is_connected |-> is_connected, data_callbacks |-> callbacks]
NoService == [present |-> FALSE, is_connected |-> FALSE, data_callbacks |-> <<>>]

\* HybridArbitrageDataService.__init__
HybridArbitrageDataService ==
    [primary_service |-> NoService, fallback_service |-> NoService, using_fallback |-> FALSE,
     is_connected |-> FALSE, data_callbacks |-> <<>>]

\* what a connect of one of the two services does: the constructor raises, connect()
\* returns False, or connect() returns True
ConnectOutcomes == {"raise", "False", "True"}

\* _setup_callbacks
_setup_callbacks(service, callbacks) ==
    [service EXCEPT !.data_callbacks = @ \o callbacks]

\* active_service = self.fallback_service if self.using_fallback else self.primary_service
active_service(hs) == IF hs.using_fallback THEN hs.fallback_service ELSE hs.primary_service

\* HybridArbitrageDataService.connect; a constructor that raises leaves the attribute
\* with the service it held
connect(hs, ws, rest) ==
    LET hs1 == IF ws = "raise" THEN hs
               ELSE [hs EXCEPT !.primary_service = DataService(ws = "True", <<>>)]
        hs2 == IF rest = "raise" THEN hs1
               ELSE [hs1 EXCEPT !.fallback_service = DataService(rest = "True", <<>>)]
    IN IF ws = "True"
       THEN [service |-> [hs1 EXCEPT !.is_connected = TRUE,
                                     !.primary_service = _setup_callbacks(@, hs.data_callbacks)],
             returned |-> TRUE, tried_fallback |-> FALSE]
       ELSE IF rest = "True"
       THEN [service |-> [hs2 EXCEPT !.using_fallback = TRUE,
                                     !.is_connected = TRUE,
                                     !.fallback_service = _setup_callbacks(@, hs.data_callbacks)],
             returned |-> TRUE, tried_fallback |-> TRUE]
       ELSE [service |-> hs2, returned |-> FALSE, tried_fallback |-> TRUE]

\* HybridArbitrageDataService.add_data_callback
add_data_callback(hs, callback) ==
    LET hs1 == [hs EXCEPT !.data_callbacks = Append(@, callback)]
    IN IF ~active_service(hs1).present THEN hs1
       ELSE IF hs1.using_fallback
       THEN [hs1 EXCEPT !.fallback_service.data_callbacks = Append(@, callback)]
       ELSE [hs1 EXCEPT !.primary_service.data_callbacks = Append(@, callback)]

\* HybridArbitrageDataService.disconnect
disconnect(hs) ==
    [hs EXCEPT !.primary_service.is_connected = FALSE,
               !.fallback_service.is_connected = FALSE,
               !.is_connected = FALSE]

NoServiceCall == [op |-> "none", ws |-> "", rest |-> "", returned |-> FALSE,
                  tried_fallback |-> FALSE, connects |-> 0]

DataServiceInit ==
    /\ data_service = HybridArbitrageDataService
    /\ service_call = NoServiceCall

\* SpotFuturesArbitrageStrategy.__init__
StrategyInit ==
    /\ positions = <<>>
    /\ completed_trades = <<>>
    /\ daily_pnl = 0
    /\ spot_quotes = [s \in Symbols |-> NoQuote]
    /\ futures_quotes = [s \in Symbols |-> NoQuote]
    /\ current_spreads = [s \in Symbols |-> NoSpread]
    /\ signals_generated_today = <<>>
    /\ market_state = MarketState
    /\ metrics = StrategyMetrics
    /\ now \in Times
    /\ last_call = NoCall

\* ZScoreArbitrageAnalyzer.__init__
AnalyzerInit ==
    /\ analyzer = Analyzer([s \in AnalyzerSymbols |-> <<>>], [s \in AnalyzerSymbols |-> 0])
    /\ analysis = NoAnalysis

Init == StrategyInit /\ AnalyzerInit /\ DataServiceInit

\* the data feed stores the latest spot quote of a symbol
ReceiveSpotQuote ==
    \E symbol \in Symbols, ltp \in SpotPrices :
        /\ spot_quotes' = [spot_quotes EXCEPT ![symbol] = LiveQuote(ltp)]
        /\ last_call' = NoCall
        /\ UNCHANGED <<market_state, metrics, analyzer_vars, service_vars>>
        /\ UNCHANGED <<positions, completed_trades, daily_pnl, futures_quotes,
                       current_spreads, signals_generated_today, now>>

\* the data feed stores the latest futures quote of a symbol
ReceiveFuturesQuote ==
    \E symbol \in Symbols, ltp \in FuturesPrices :
        /\ futures_quotes' = [futures_quotes EXCEPT ![symbol] = LiveQuote(ltp)]
        /\ last_call' = NoCall
        /\ UNCHANGED <<market_state, metrics, analyzer_vars, service_vars>>
        /\ UNCHANGED <<positions, completed_trades, daily_pnl, spot_quotes,
                       current_spreads, signals_generated_today, now>>

\* time passes between two calls of datetime.now()
AdvanceClock ==
    \E t \in Times :
        /\ t > now
        /\ now' = t
        /\ last_call' = NoCall
        /\ UNCHANGED <<market_state, metrics, analyzer_vars, service_vars>>
        /\ UNCHANGED <<positions, completed_trades, daily_pnl, spot_quotes, futures_quotes,
                       current_spreads, signals_generated_today>>

\* one pass of the loop of run()
RunStrategyCycle ==
    LET after == run_strategy_cycle(St, now)
    IN /\ positions' = after.positions
       /\ completed_trades' = after.completed_trades
       /\ daily_pnl' = after.daily_pnl
       /\ current_spreads' = after.current_spreads
       /\ signals_generated_today' = after.signals_generated_today
       /\ market_state' = after.market_state
       /\ metrics' = after.metrics
       /\ last_call' = Call("run_strategy_cycle", "", now, None, after.log)
       /\ UNCHANGED <<analyzer_vars, service_vars>>
       /\ UNCHANGED <<spot_quotes, futures_quotes, now>>

\* the signals a caller may hand to execute_signal
Directions == {"LONG_FUTURES_SHORT_SPOT", "SHORT_FUTURES_LONG_SPOT"}
\* (target_spread, stop_loss_spread) of a signal entered at a spread of 13: a short
\* futures leg aims at a narrower spread, a long futures leg at a wider one
bracket_of == [d \in Directions |->
                  IF d = "SHORT_FUTURES_LONG_SPOT" THEN <<10, 30>> ELSE <<20, 5>>]
\* contract.days_to_expiry of each symbol's futures contract
days_to_expiry_of == [s \in Symbols |-> IF s = "A" THEN 3 ELSE 10]
\* symbol_manager.get_lot_size
lot_size_of == [s \in Symbols |-> 250]

Signals ==
    {ArbitrageSignal(symbol, direction, spot, futures,
                     bracket_of[direction][1], bracket_of[direction][2],
                     lot_size_of[symbol], 1, 1, days_to_expiry_of[symbol]) :
        symbol \in Symbols, direction \in Directions,
        spot \in SpotPrices, futures \in FuturesPrices}

\* a direct call of execute_signal
ExecuteSignal ==
    \E signal \in Signals :
        LET after == execute_signal(St, signal)
        IN /\ Len(signals_generated_today) < MaxSignals
           /\ positions' = after.positions
           /\ signals_generated_today' = after.signals_generated_today
           /\ last_call' = Call("execute_signal", signal.symbol, now,
                                 IF \E e \in Range(after.log) : e.ev = "open" THEN "True" ELSE "False", <<>>)
           /\ UNCHANGED <<market_state, metrics, analyzer_vars, service_vars>>
           /\ UNCHANGED <<completed_trades, daily_pnl, spot_quotes, futures_quotes,
                          current_spreads, now>>

ExitReasons == {"TARGET", "STOP_LOSS", "EXPIRY_EXIT", "TIME_EXIT"}

\* a direct call of _close_position
ClosePosition ==
    \E symbol \in Symbols, reason \in ExitReasons :
        LET after == _close_position(St, symbol, reason)
        IN /\ positions' = after.positions
           /\ completed_trades' = after.completed_trades
           /\ daily_pnl' = after.daily_pnl
           /\ last_call' = Call("_close_position", symbol, now, None,
                                <<Ev("_close_position", symbol, reason)>> \o after.log)
           /\ UNCHANGED <<market_state, metrics, analyzer_vars, service_vars>>
           /\ UNCHANGED <<spot_quotes, futures_quotes, current_spreads,
                          signals_generated_today, now>>

Next ==
    \/ ReceiveSpotQuote
    \/ ReceiveFuturesQuote
    \/ AdvanceClock
    \/ RunStrategyCycle
    \/ ExecuteSignal
    \/ ClosePosition

Spec == Init /\ [][Next]_vars

----------------------------------------------------------------------------
(* The strategy started with a ledger its owner has filled: self.positions, *)
(* self.completed_trades and self.daily_pnl are plain attributes, and       *)
(* ArbitragePosition is a plain dataclass.                                  *)

\* the leg quantities of a direction: spot_quantity is positive for a long spot leg,
\* futures_quantity is the opposite (trading_models.py:145-146)
OpenPosition(symbol, direction, entry_spot, entry_futures, bracket) ==
    ArbitragePosition(symbol, direction,
        IF direction = "SHORT_FUTURES_LONG_SPOT" THEN lot_size_of[symbol] ELSE -lot_size_of[symbol],
        IF direction = "SHORT_FUTURES_LONG_SPOT" THEN -lot_size_of[symbol] ELSE lot_size_of[symbol],
        lot_size_of[symbol], entry_spot, entry_futures, entry_futures - entry_spot,
        bracket[1], bracket[2], days_to_expiry_of[symbol])

LedgerPositions ==
    {OpenPosition(symbol, direction, spot, futures, bracket_of[direction]) :
        symbol \in {"A", "B"}, direction \in Directions,
        spot \in SpotPrices, futures \in FuturesPrices}

Ledgers ==
    {<<>>} \cup {<<p>> : p \in LedgerPositions}
           \cup {pq \in {<<p, q>> : p \in LedgerPositions, q \in LedgerPositions} :
                     pq[1].symbol # pq[2].symbol}

InitLedger ==
    /\ positions \in {l \in Ledgers : Len(l) <= max_positions}
    /\ completed_trades = <<>>
    /\ daily_pnl = 0
    /\ spot_quotes = [s \in Symbols |-> NoQuote]
    /\ futures_quotes = [s \in Symbols |-> NoQuote]
    /\ current_spreads = [s \in Symbols |-> NoSpread]
    /\ signals_generated_today = <<>>
    /\ market_state = MarketState
    /\ metrics = StrategyMetrics
    /\ now \in Times
    /\ last_call = NoCall
    /\ AnalyzerInit
    /\ DataServiceInit

SpecLedger == InitLedger /\ [][Next]_vars

----------------------------------------------------------------------------
(* The strategy started after a losing trade of the day has been booked.   *)

\* the futures leg of the booked trade moved against it by this many rupees per unit
LossSteps == {12, 13}

\* the ArbitrageTradeResult of a long-spot/short-futures position in C closed after the
\* futures price rose by k: net_pnl = -250 * k
BookedLoss(k) ==
    ArbitrageTradeResult(
        [symbol |-> "C", signal_type |-> "SHORT_FUTURES_LONG_SPOT",
         entry_spot_price |-> 1000, entry_futures_price |-> 1013, entry_spread |-> 13,
         exit_spot_price |-> 1000, exit_futures_price |-> 1013 + k, exit_spread |-> 13 + k,
         quantity |-> 1, lot_size |-> lot_size_of["C"],
         holding_period |-> 1, days_to_expiry_at_entry |-> 10, days_to_expiry_at_exit |-> 10,
         gross_pnl |-> -(lot_size_of["C"] * k), spot_pnl |-> 0,
         futures_pnl |-> -(lot_size_of["C"] * k),
         spread_change |-> k, spread_change_pct |-> 0,
         exit_reason |-> "STOP_LOSS",
         max_favorable_spread |-> 13, max_adverse_spread |-> 13 + k]).trade

InitBreaker ==
    /\ positions \in {l \in Ledgers : l = <<>> \/ (Len(l) = 1 /\ l[1].symbol = "A")}
    /\ \/ completed_trades = <<>> /\ daily_pnl = 0
       \/ \E k \in LossSteps :
              /\ completed_trades = <<BookedLoss(k)>>
              /\ daily_pnl = BookedLoss(k).net_pnl
    /\ spot_quotes = [s \in Symbols |-> NoQuote]
    /\ futures_quotes = [s \in Symbols |-> NoQuote]
    /\ current_spreads = [s \in Symbols |-> NoSpread]
    /\ signals_generated_today = <<>>
    /\ market_state = MarketState
    /\ metrics = StrategyMetrics
    /\ now \in Times
    /\ last_call = NoCall
    /\ AnalyzerInit
    /\ DataServiceInit

SpecBreaker == InitBreaker /\ [][Next]_vars

----------------------------------------------------------------------------
(* The analyzer fed with observations                                      *)

\* the analyzer reads no clock
InitStats == StrategyInit /\ now = 870 /\ AnalyzerInit /\ DataServiceInit

\* a call of calculate_basis_statistics
CalculateBasisStatistics ==
    \E symbol \in AnalyzerSymbols, basis \in BasisValues :
        LET r == calculate_basis_statistics(analyzer, symbol, basis)
        IN /\ SumSeq([i \in 1..2 |-> analyzer.data_point_count[<<"A", "B">>[i]]]) < MaxObservations
           /\ analyzer' = r.analyzer
           /\ analysis' = [NoAnalysis EXCEPT !.op = "calculate_basis_statistics",
                                              !.symbol = symbol, !.basis = basis,
                                              !.stats = r.stats]
           /\ UNCHANGED <<strategy_vars, service_vars>>

NextStats == CalculateBasisStatistics

SpecStats == InitStats /\ [][NextStats]_vars

----------------------------------------------------------------------------
(* generate_entry_signal applied to statistics and snapshots               *)

\* the histories the analyzer holds when it is asked for a signal
EntryHistories == {<<>>, <<5>>, <<0, 1, 5>>}
\* z-scores -3, -2, ..., 3, and 2.5 = 5 / sqrt(4)
ZScores == {[n |-> k, v |-> 1] : k \in -3..3} \cup {[n |-> 5, v |-> 4]}
\* (mean, variance) of the statistics, in hundredths of a percent: std 1 and std 2;
\* with std_is_nan the std of the statistics is float('nan') instead
Moments == {<<130, 1>>, <<130, 4>>}
StatsInputs ==
    {[has_sufficient_data |-> sufficient, data_points |-> IF sufficient THEN 3 ELSE 1,
      mean_num |-> m[1], mean_den |-> 1, var_num |-> m[2], var_den |-> 1,
      std_is_nan |-> nan, z_score |-> z, min |-> 120, max |-> 140] :
        sufficient \in BOOLEAN, m \in Moments, nan \in BOOLEAN, z \in ZScores}
\* (spot_volume, futures_volume)
Volumes == {<<20000, 10000>>, <<20000, 5000>>, <<3000, 1000>>, <<0, 6000>>}
EntrySpotPrices == {-1000, 0, 60, 1000}
\* futures below, at and above a spot price of 1000
EntryFuturesPrices == {987, 1000, 1013}
SpreadInputs ==
    {SpotFuturesSpread(symbol, spot, futures, v[1], v[2], Frac(0, 1), 10) :
        symbol \in AnalyzerSymbols, spot \in EntrySpotPrices, futures \in EntryFuturesPrices,
        v \in Volumes}

InitEntry ==
    /\ StrategyInit /\ now = 870
    /\ DataServiceInit
    /\ \E h \in EntryHistories :
           analyzer = Analyzer([s \in AnalyzerSymbols |-> h], [s \in AnalyzerSymbols |-> Len(h)])
    /\ analysis = NoAnalysis

\* a call of generate_entry_signal; the call changes nothing in the analyzer, so the
\* first call of a behaviour reaches every result
GenerateEntrySignal ==
    \E spread \in SpreadInputs, stats \in StatsInputs :
        /\ analysis = NoAnalysis
        /\ analysis' = [NoAnalysis EXCEPT
               !.op = "generate_entry_signal", !.symbol = spread.symbol,
               !.spread = spread, !.stats = stats,
               !.signal = generate_entry_signal(analyzer, spread.symbol, spread, stats)]
        /\ UNCHANGED <<analyzer, strategy_vars, service_vars>>

NextEntry == GenerateEntrySignal

SpecEntry == InitEntry /\ [][NextEntry]_vars

----------------------------------------------------------------------------
(* check_exit_signal applied to positions and snapshots                    *)

\* the number of calls of check_exit_signal
MaxExitChecks == 4
\* unrealized_pnl of the position handed over; its notional is 2 * 1000 * 250 = 500000,
\* so -5000 is a loss of exactly stop_loss_pct and -6000 a loss of 1.2 %
UnrealizedPnls == {-6000, -5000, -4999, 0, 6000}
ExitPositions ==
    {[p EXCEPT !.unrealized_pnl = pnl] : p \in LedgerPositions, pnl \in UnrealizedPnls}
\* futures prices of the snapshots, against a spot price of 1000: a basis of 0, 0.10 %
\* and 0.50 %
ExitFuturesPrices == {1000, 1001, 1005}
ExitSpreads ==
    {SpotFuturesSpread(symbol, 1000, futures, 20000, 10000, Frac(0, 1), 10) :
        symbol \in AnalyzerSymbols, futures \in ExitFuturesPrices}

InitExit == StrategyInit /\ now = 870 /\ AnalyzerInit /\ DataServiceInit

\* a call of check_exit_signal for a position and the snapshot of its symbol
CheckExitSignal ==
    \E position \in ExitPositions, spread \in ExitSpreads :
        LET r == check_exit_signal(analyzer, position.symbol, position, spread)
        IN /\ spread.symbol = position.symbol
           /\ SumSeq([i \in 1..2 |-> analyzer.data_point_count[<<"A", "B">>[i]]]) < MaxExitChecks
           /\ analyzer' = r.analyzer
           /\ analysis' = [NoAnalysis EXCEPT
                  !.op = "check_exit_signal", !.symbol = position.symbol,
                  !.basis = basis_pct_of(spread), !.spread = spread, !.stats = r.stats,
                  !.position = position, !.exit = r.exit]
           /\ UNCHANGED <<strategy_vars, service_vars>>

NextExit == CheckExitSignal

SpecExit == InitExit /\ [][NextExit]_vars

----------------------------------------------------------------------------
(* The three calls of the analyzer on one analyzer object                  *)

\* a call of generate_entry_signal with the statistics that the call of
\* calculate_basis_statistics before it returned
EvaluateEntrySignal ==
    \E spread \in ExitSpreads :
        /\ analysis.op = "calculate_basis_statistics"
        /\ spread.symbol = analysis.symbol
        /\ analysis' = [NoAnalysis EXCEPT
               !.op = "generate_entry_signal", !.symbol = spread.symbol,
               !.basis = analysis.basis, !.spread = spread, !.stats = analysis.stats,
               !.signal = generate_entry_signal(analyzer, spread.symbol, spread, analysis.stats)]
        /\ UNCHANGED <<analyzer, strategy_vars, service_vars>>

\* the number of observations recorded on this analyzer
MaxAnalyzerCalls == 3

NextAnalyzer ==
    \/ /\ analyzer.data_point_count["A"] + analyzer.data_point_count["B"] < MaxAnalyzerCalls
       /\ (CalculateBasisStatistics \/ CheckExitSignal)
    \/ EvaluateEntrySignal

SpecAnalyzer == InitStats /\ [][NextAnalyzer]_vars

----------------------------------------------------------------------------
(* An open position over the cycles of run(), with its z-score watched      *)

\* the number of calls of check_exit_signal for the position
MaxWatchedCycles == 3

\* the strategy holds one position of A and has quotes of both legs of A
InitConvergence ==
    /\ positions \in {<<p>> : p \in {q \in LedgerPositions : q.symbol = "A"}}
    /\ completed_trades = <<>>
    /\ daily_pnl = 0
    /\ spot_quotes = [s \in Symbols |-> IF s = "A" THEN LiveQuote(1000) ELSE NoQuote]
    /\ \E ltp \in ExitFuturesPrices :
           futures_quotes = [s \in Symbols |-> IF s = "A" THEN LiveQuote(ltp) ELSE NoQuote]
    /\ current_spreads = [s \in Symbols |-> NoSpread]
    /\ signals_generated_today = <<>>
    /\ market_state = MarketState
    /\ metrics = StrategyMetrics
    /\ now \in Times
    /\ last_call = NoCall
    /\ AnalyzerInit
    /\ DataServiceInit

\* the data feed stores a new futures quote of A
FuturesQuoteMoves ==
    \E ltp \in ExitFuturesPrices :
        /\ futures_quotes' = [futures_quotes EXCEPT !["A"] = LiveQuote(ltp)]
        /\ last_call' = NoCall
        /\ UNCHANGED <<market_state, metrics, analyzer_vars, service_vars>>
        /\ UNCHANGED <<positions, completed_trades, daily_pnl, spot_quotes,
                       current_spreads, signals_generated_today, now>>

\* a call of check_exit_signal for a position the strategy holds and the snapshot of
\* the quotes of its symbol
CheckOpenPosition ==
    \E i \in 1..Len(positions), spread \in ExitSpreads :
        LET position == positions[i]
            r == check_exit_signal(analyzer, position.symbol, position, spread)
        IN /\ spread.symbol = position.symbol
           /\ spot_quotes[position.symbol] = LiveQuote(spread.spot_price)
           /\ futures_quotes[position.symbol] = LiveQuote(spread.futures_price)
           /\ analyzer.data_point_count[position.symbol] < MaxWatchedCycles
           /\ analyzer' = r.analyzer
           /\ analysis' = [NoAnalysis EXCEPT
                  !.op = "check_exit_signal", !.symbol = position.symbol,
                  !.basis = basis_pct_of(spread), !.spread = spread, !.stats = r.stats,
                  !.position = position, !.exit = r.exit]
           /\ UNCHANGED <<strategy_vars, service_vars>>

NextConvergence == RunStrategyCycle \/ AdvanceClock \/ FuturesQuoteMoves \/ CheckOpenPosition

\* run() repeats run_strategy_cycle for as long as the process lives (lines 533-553)
SpecConvergence ==
    InitConvergence /\ [][NextConvergence]_vars /\ WF_vars(RunStrategyCycle)

----------------------------------------------------------------------------
(* The ranking of _scan_opportunities (lines 475-481) applied to signals    *)

\* _calculate_signal_confidence, in thousandths: 30 % for the z-score, 25 % for the volume
\* ratio, 25 % for the convergence and 20 % for the days to expiry.  z_score is a whole
\* number, convergence_rate is in hundredths
_calculate_signal_confidence(spread) ==
    LET z_confidence == IF spread.z_score # 0 THEN 100 * Min(Abs(spread.z_score), 3) ELSE 150
        volume_confidence ==
            IF spread.volume_ratio.num >= 2 * spread.volume_ratio.den THEN 250
            ELSE (125 * spread.volume_ratio.num) \div spread.volume_ratio.den
        convergence_confidence ==
            IF spread.is_converging THEN 25 * Min(Abs(spread.convergence_rate), 10) ELSE 0
        expiry_confidence == 10 * Min(spread.days_to_expiry, 20)
    IN Min(z_confidence + volume_confidence + convergence_confidence + expiry_confidence, 1000)

\* the z-scores, volume ratios and convergence flags of the snapshots that give signals
RankZScores == {-4, 1, 3}
RankVolumeRatios == {Frac(2, 5), Frac(2, 1)}
RankSpreads ==
    {[z_score |-> z, volume_ratio |-> vr, is_converging |-> c, convergence_rate |-> -20,
      days_to_expiry |-> 10] : z \in RankZScores, vr \in RankVolumeRatios, c \in BOOLEAN}

\* the signal of a symbol, as far as the ranking reads it
RankSignal(symbol, spread) ==
    [symbol |-> symbol, z_score |-> spread.z_score,
     confidence |-> _calculate_signal_confidence(spread)]

\* the list `signals` after the first loop: at most one signal per flat symbol, in the
\* order of trading_symbols
RECURSIVE SignalLists(_)
SignalLists(i) ==
    IF i > Len(trading_symbols) THEN {<<>>}
    ELSE LET rest == SignalLists(i + 1)
         IN rest \cup {<<RankSignal(trading_symbols[i], spread)>> \o r :
                          spread \in RankSpreads, r \in rest}

\* the events of a list of signals
SignalEvents(ev, signals) == [i \in 1..Len(signals) |-> Ev(ev, signals[i].symbol, signals[i].z_score)]

InitRank == StrategyInit /\ now = 870 /\ AnalyzerInit /\ DataServiceInit

\* lines 475-479: the sort by confidence and the slice to the available slots
RankSignals ==
    \E signals \in SignalLists(1) :
        LET sorted == sort_by_confidence(signals, 1, <<>>)
            available_slots == max_positions - Len(positions)
            top == slice_to(sorted, available_slots)
        IN /\ last_call' = Call("rank", "", now, None,
                                SignalEvents("signal", signals) \o SignalEvents("selected", top))
           /\ UNCHANGED <<market_state, metrics, analyzer_vars, service_vars>>
           /\ UNCHANGED <<positions, completed_trades, daily_pnl, spot_quotes, futures_quotes,
                          current_spreads, signals_generated_today, now>>

NextRank == RankSignals

SpecRank == InitRank /\ [][NextRank]_vars

----------------------------------------------------------------------------
(* Properties of the strategy cycle                                        *)

LogHas(log, ev) == \E i \in 1..Len(log) : log[i].ev = ev
CountOf(log, ev) == Cardinality({i \in 1..Len(log) : log[i].ev = ev})
QuotesAvailable(symbol) == spot_quotes[symbol].present /\ futures_quotes[symbol].present
\* the time is at or after the square-off time of the configuration
AtOrAfterSquareOff(t) ==
    Hour(t) > square_off_hour \/ (Hour(t) = square_off_hour /\ Minute(t) >= square_off_minute)

\* C1: a cycle never leaves more than max_positions positions open, and a cycle whose
\* ledger holds max_positions positions once the exits are applied does not enter the
\* scan for entries
C1_PositionCap ==
    [][RunStrategyCycle =>
          /\ Len(positions') <= max_positions
          /\ (Len(positions) - CountOf(last_call'.log, "close") >= max_positions
                 => ~LogHas(last_call'.log, "_scan_opportunities"))]_vars

\* a cycle before the entry cutoff ran on a full ledger and did not scan
C1_Witness ==
    /\ last_call.op = "run_strategy_cycle"
    /\ Hour(last_call.t) < 15
    /\ Len(positions) = max_positions
    /\ \E s \in Symbols : ~Has(positions, s) /\ current_spreads[s].present
    /\ ~LogHas(last_call.log, "_scan_opportunities")

\* C2: execute_signal for a symbol that has an open position returns False and leaves
\* the ledger as it was; the ledger never holds two positions of one symbol
C2_NoSecondPosition ==
    [][(\A i, j \in 1..Len(positions') : positions'[i].symbol = positions'[j].symbol => i = j)
       /\ ((last_call'.op = "execute_signal" /\ Has(positions, last_call'.symbol))
              => (last_call'.returned = "False" /\ positions' = positions))]_vars

\* execute_signal was called for a symbol with an open position
C2_Witness ==
    /\ last_call.op = "execute_signal"
    /\ Has(positions, last_call.symbol)
    /\ last_call.returned = "False"

\* C3: a cycle at or after the square-off time closes every open position whose two
\* quotes are available
C3_SquareOffClosesAll ==
    [][(RunStrategyCycle /\ AtOrAfterSquareOff(now)) =>
          \A i \in 1..Len(positions) :
              QuotesAvailable(positions[i].symbol) => ~Has(positions', positions[i].symbol)]_vars

\* C4: in the log of a cycle every step of the exit phase precedes every step of the
\* entry phase, and no position opened in the cycle is closed in it
C4_ExitsBeforeEntries ==
    last_call.op = "run_strategy_cycle" =>
        LET log == last_call.log
        IN /\ \A i, j \in 1..Len(log) :
                  (/\ log[i].ev \in {"monitor_positions", "update", "raise", "close", "close_failed"}
                   /\ log[j].ev \in {"_scan_opportunities", "open", "open_failed"})
                  => i < j
           /\ \A i, j \in 1..Len(log) :
                  (log[i].ev = "open" /\ log[j].ev = "close" /\ log[i].sym = log[j].sym)
                  => j < i

\* a cycle monitored an open position and then scanned for entries
C4_Witness ==
    /\ last_call.op = "run_strategy_cycle"
    /\ LogHas(last_call.log, "update")
    /\ LogHas(last_call.log, "_scan_opportunities")

\* C5: a cycle in which the gate rejects entries still closes every position with
\* available quotes whose expiry is near or whose square-off time has come
C5_ExitsWhenGateRejects ==
    [][(RunStrategyCycle /\ ~LogHas(last_call'.log, "_scan_opportunities")) =>
          /\ LogHas(last_call'.log, "monitor_positions")
          /\ \A i \in 1..Len(positions) :
                 (/\ QuotesAvailable(positions[i].symbol)
                  /\ (positions[i].days_to_expiry <= days_before_expiry_to_exit
                         \/ AtOrAfterSquareOff(now)))
                 => ~Has(positions', positions[i].symbol)]_vars

\* C6: a cycle that ends with daily_pnl below -max_daily_loss has not scanned for
\* entries and has opened no position
C6_DailyLossBreaker ==
    [][(RunStrategyCycle /\ daily_pnl' < -max_daily_loss) =>
          /\ ~LogHas(last_call'.log, "_scan_opportunities")
          /\ ~LogHas(last_call'.log, "open")
          /\ Keys(positions') \subseteq Keys(positions)]_vars

\* a cycle before the entry cutoff, with a free slot and a candidate symbol, ran with
\* the daily loss beyond the limit and did not scan
C6_Witness ==
    /\ last_call.op = "run_strategy_cycle"
    /\ Hour(last_call.t) < 15
    /\ Len(positions) < max_positions
    /\ daily_pnl < -max_daily_loss
    /\ \E s \in Symbols : ~Has(positions, s) /\ current_spreads[s].present
    /\ ~LogHas(last_call.log, "_scan_opportunities")

\* C7: a cycle at or after the entry cutoff (15:00) does not scan for entries and
\* opens no position
C7_NoEntryAfterCutoff ==
    [][(RunStrategyCycle /\ Hour(now) >= 15) =>
          /\ ~LogHas(last_call'.log, "_scan_opportunities")
          /\ ~LogHas(last_call'.log, "open")
          /\ Keys(positions') \subseteq Keys(positions)]_vars

\* a cycle ran after the cutoff with an empty ledger, no loss and a candidate symbol
C7_Witness ==
    /\ last_call.op = "run_strategy_cycle"
    /\ Hour(last_call.t) >= 15
    /\ positions = <<>>
    /\ daily_pnl = 0
    /\ \E s \in Symbols : current_spreads[s].present
    /\ ~LogHas(last_call.log, "_scan_opportunities")

\* C8: for an open position with available quotes whose expiry is near or whose
\* square-off time has come, the exit reason the cycle determines is the time-based
\* one (SQUARE_OFF or EXPIRY_EXIT), whatever the spread is
C8_TimeExitFirst ==
    \A i \in 1..Len(positions) :
        LET p == positions[i]
            updated == update_current_prices(p, spot_quotes[p.symbol].ltp,
                                             futures_quotes[p.symbol].ltp)
        IN (/\ QuotesAvailable(p.symbol)
            /\ (p.days_to_expiry <= days_before_expiry_to_exit \/ AtOrAfterSquareOff(now)))
           => (/\ ~updated.raised
               /\ _check_exit_conditions(updated.position, now) \in {"SQUARE_OFF", "EXPIRY_EXIT"})

----------------------------------------------------------------------------
(* Properties of the analyzer                                              *)

\* C9: the z_score returned by calculate_basis_statistics is 0 when the symbol has
\* fewer than basis_lookback observations, and when the standard deviation of the
\* window is at most min_basis_std
C9_ZeroZScore ==
    analysis.op = "calculate_basis_statistics" =>
        LET window == LastK(analyzer.basis_history[analysis.symbol], basis_lookback)
            n == Len(window)
        IN (\/ analyzer.data_point_count[analysis.symbol] < basis_lookback
            \/ analysis.stats.data_points < basis_lookback
            \/ n * SumSeq(Squares(window)) - SumSeq(window) * SumSeq(window)
                   <= min_basis_std * min_basis_std * n * n)
           => analysis.stats.z_score.n = 0

\* statistics were computed over a full window that varies, with the newest value off
\* the mean, but by no more than min_basis_std
C9_Witness ==
    /\ analysis.op = "calculate_basis_statistics"
    /\ analysis.stats.has_sufficient_data
    /\ analysis.stats.var_num > 0
    /\ analysis.stats.var_num <= min_basis_std * min_basis_std * analysis.stats.var_den
    /\ analysis.basis * analysis.stats.mean_den # analysis.stats.mean_num
    /\ analysis.stats.z_score.n = 0

\* C10: generate_entry_signal returns no signal when |z_score| <= entry_zscore_threshold,
\* and a signal it returns is LONG_FUTURES_SHORT_SPOT for z_score < -threshold and
\* SHORT_FUTURES_LONG_SPOT for z_score > +threshold
C10_EntryDirection ==
    analysis.op = "generate_entry_signal" =>
        LET z == analysis.stats.z_score
            below == z.n < 0 /\ 100 * z.n * z.n > entry_zscore_threshold_x10 * entry_zscore_threshold_x10 * z.v
            above == z.n > 0 /\ 100 * z.n * z.n > entry_zscore_threshold_x10 * entry_zscore_threshold_x10 * z.v
        IN /\ (~below /\ ~above) => ~analysis.signal.present
           /\ analysis.signal.present =>
                  \/ below /\ analysis.signal.signal_type = "LONG_FUTURES_SHORT_SPOT"
                  \/ above /\ analysis.signal.signal_type = "SHORT_FUTURES_LONG_SPOT"

\* a LONG_FUTURES_SHORT_SPOT signal was returned for z_score = -3
C10_Witness ==
    /\ analysis.op = "generate_entry_signal"
    /\ analysis.signal.present
    /\ analysis.stats.z_score.n = -3
    /\ analysis.signal.signal_type = "LONG_FUTURES_SHORT_SPOT"

\* C11: generate_entry_signal returns a signal only if every entry filter passes:
\* sufficient data, std > min_basis_std, volume_ratio >= min_volume_ratio,
\* spot_volume + futures_volume >= min_total_volume and |z_score| > entry_zscore_threshold
C11_SignalOnlyIfFiltersPass ==
    (analysis.op = "generate_entry_signal" /\ analysis.signal.present) =>
        LET stats == analysis.stats
            spread == analysis.spread
            z == stats.z_score
        IN /\ stats.has_sufficient_data
           /\ ~stats.std_is_nan
           /\ stats.var_num > min_basis_std * min_basis_std * stats.var_den
           /\ spread.spot_volume > 0
           /\ 10 * spread.futures_volume >= min_volume_ratio_x10 * spread.spot_volume
           /\ spread.spot_volume + spread.futures_volume >= min_total_volume
           /\ 100 * z.n * z.n > entry_zscore_threshold_x10 * entry_zscore_threshold_x10 * z.v

\* the stop-loss condition of a position: a loss of at least stop_loss_pct percent of
\* the notional of both legs
StopLossDue(position) ==
    /\ position.unrealized_pnl < 0
    /\ Abs(position.unrealized_pnl) * 100
           >= stop_loss_pct * Abs(position.entry_spot_price * position.spot_quantity * 2)
\* |z_score| < exit_zscore_threshold
InsideExitBand(z) == 100 * z.n * z.n < exit_zscore_threshold_x10 * exit_zscore_threshold_x10 * z.v

\* C13: when |z_score| < exit_zscore_threshold and the stop-loss condition hold together,
\* check_exit_signal never returns STOP_LOSS, and over a filled window it returns
\* (True, BASIS_CONVERGENCE)
C13_ConvergenceBeforeStopLoss ==
    (/\ analysis.op = "check_exit_signal"
     /\ InsideExitBand(analysis.stats.z_score)
     /\ StopLossDue(analysis.position))
    => /\ analysis.exit.exit_reason # "STOP_LOSS"
       /\ analysis.stats.has_sufficient_data
              => analysis.exit = ExitDecision(TRUE, "BASIS_CONVERGENCE")

\* over a filled window both exit conditions held and BASIS_CONVERGENCE was returned
C13_Witness ==
    /\ analysis.op = "check_exit_signal"
    /\ analysis.stats.has_sufficient_data
    /\ InsideExitBand(analysis.stats.z_score)
    /\ StopLossDue(analysis.position)
    /\ analysis.exit = ExitDecision(TRUE, "BASIS_CONVERGENCE")

\* C14: check_exit_signal returns (True, STOP_LOSS) for every position whose stop-loss
\* condition holds and for which the convergence exit does not fire, whether or not
\* the rolling window is filled
C14_StopLossAlways ==
    (/\ analysis.op = "check_exit_signal"
     /\ StopLossDue(analysis.position)
     /\ ~(analysis.stats.has_sufficient_data /\ InsideExitBand(analysis.stats.z_score)))
    => analysis.exit = ExitDecision(TRUE, "STOP_LOSS")

\* C12: once the z-score of an open position lies strictly inside the exit band, the
\* position is eventually closed, with a BASIS_CONVERGENCE trade or earlier for another
\* reason
C12_ConvergenceCloses ==
    (/\ Has(positions, "A")
     /\ analysis.op = "check_exit_signal" /\ analysis.symbol = "A"
     /\ analysis.exit = ExitDecision(TRUE, "BASIS_CONVERGENCE"))
    ~> ~Has(positions, "A")

\* the exit reasons of a recorded trade
RecordedExitReasons == {"BASIS_CONVERGENCE", "STOP_LOSS", "SQUARE_OFF", "EXPIRY_EXIT"}

\* C15: a close of a held position whose quotes are present, asked for with a reason
\* that _check_exit_conditions issues, appends a trade result whose exit_reason is one
\* of BASIS_CONVERGENCE, STOP_LOSS, SQUARE_OFF and EXPIRY_EXIT, and every trade result
\* of the history has one of these reasons
C15_ExitReasonRecorded ==
    [][(/\ last_call'.op = "_close_position"
        /\ Has(positions, last_call'.symbol)
        /\ QuotesAvailable(last_call'.symbol))
       => /\ Len(completed_trades') = Len(completed_trades) + 1
          /\ \A i \in 1..Len(completed_trades') :
                 completed_trades'[i].exit_reason \in RecordedExitReasons]_vars

\* the legs of a position are of opposite sign and of the same, non-zero size
OppositeLegs(position) ==
    /\ position.spot_quantity = -position.futures_quantity
    /\ position.spot_quantity # 0

\* C16: execute_signal for a symbol without a position leaves a position of the symbol
\* whose legs are of opposite sign and of the size lot_size * quantity of the signal,
\* and every position of the ledger has legs of opposite sign and equal size
C16_OppositeLegs ==
    [][/\ \A i \in 1..Len(positions') : OppositeLegs(positions'[i])
       /\ (last_call'.op = "execute_signal" /\ ~Has(positions, last_call'.symbol))
              => /\ Has(positions', last_call'.symbol)
                 /\ \E signal \in Signals :
                        /\ signal.symbol = last_call'.symbol
                        /\ Abs(Get(positions', last_call'.symbol).spot_quantity)
                               = signal.lot_size * signal.quantity]_vars

\* C17: execute_signal for a symbol without a position succeeds for both directions and
\* leaves a position whose legs have the signs of its direction: a long futures leg and
\* a short spot leg for LONG_FUTURES_SHORT_SPOT, the opposite for SHORT_FUTURES_LONG_SPOT
C17_LegSigns ==
    [][(last_call'.op = "execute_signal" /\ ~Has(positions, last_call'.symbol))
          => /\ last_call'.returned = "True"
             /\ Has(positions', last_call'.symbol)
             /\ LET position == Get(positions', last_call'.symbol)
                IN IF position.signal_type = "LONG_FUTURES_SHORT_SPOT"
                   THEN position.futures_quantity > 0 /\ position.spot_quantity < 0
                   ELSE position.futures_quantity < 0 /\ position.spot_quantity > 0]_vars

\* the profit of one leg: its signed quantity times the move of its price
LegPnl(quantity, entry_price, current_price) == quantity * (current_price - entry_price)

\* C18: a position opened by execute_signal and updated at once with its entry prices has
\* unrealized_pnl = 0, and a position that a cycle has updated has unrealized_pnl equal to
\* the sum of the profits of its two legs, each computed from its own quantity and prices
C18_RoundTrip ==
    [][/\ (last_call'.op = "execute_signal" /\ ~Has(positions, last_call'.symbol))
              => /\ Has(positions', last_call'.symbol)
                 /\ LET opened == Get(positions', last_call'.symbol)
                        updated == update_current_prices(opened, opened.entry_spot_price,
                                                         opened.entry_futures_price)
                    IN ~updated.raised /\ updated.position.unrealized_pnl = 0
       /\ RunStrategyCycle
              => \A i \in 1..Len(positions') :
                     LET position == positions'[i]
                     IN (\E e \in Range(last_call'.log) : e.ev = "update" /\ e.sym = position.symbol)
                            => position.unrealized_pnl
                                   = LegPnl(position.spot_quantity, position.entry_spot_price,
                                            position.current_spot_price)
                                     + LegPnl(position.futures_quantity, position.entry_futures_price,
                                              position.current_futures_price)]_vars

\* C19: the trade result that a close of a held position records has the gross_pnl,
\* spot_pnl and futures_pnl that update_current_prices computes for the position at the
\* exit prices
C19_RecordedPnl ==
    [][(/\ last_call'.op = "_close_position"
        /\ Has(positions, last_call'.symbol)
        /\ QuotesAvailable(last_call'.symbol))
       => /\ Len(completed_trades') = Len(completed_trades) + 1
          /\ LET trade == completed_trades'[Len(completed_trades')]
                 updated == update_current_prices(Get(positions, last_call'.symbol),
                                                  spot_quotes[last_call'.symbol].ltp,
                                                  futures_quotes[last_call'.symbol].ltp).position
             IN /\ trade.gross_pnl = updated.unrealized_pnl
                /\ trade.spot_pnl = updated.spot_pnl
                /\ trade.futures_pnl = updated.futures_pnl]_vars

\* C20: a close of a held position appends one trade result of the symbol and removes
\* the position of the symbol and no other; the history only grows at its end; a
\* position leaves the ledger only together with a new trade result
C20_CloseRecordsTrade ==
    [][/\ (/\ last_call'.op = "_close_position"
           /\ Has(positions, last_call'.symbol)
           /\ QuotesAvailable(last_call'.symbol))
          => /\ Len(completed_trades') = Len(completed_trades) + 1
             /\ completed_trades'[Len(completed_trades')].symbol = last_call'.symbol
             /\ positions' = Del(positions, last_call'.symbol)
       /\ Len(completed_trades') >= Len(completed_trades)
       /\ SubSeq(completed_trades', 1, Len(completed_trades)) = completed_trades
       /\ \A i \in 1..Len(positions) :
              ~Has(positions', positions[i].symbol)
                  => Len(completed_trades') > Len(completed_trades)]_vars

\* C21: _close_position for a symbol without a position reports a fault (it raises, or
\* logs the failure) and leaves positions, completed_trades and daily_pnl as they were
C21_CloseOfFlatSymbolReported ==
    [][(last_call'.op = "_close_position" /\ ~Has(positions, last_call'.symbol))
       => /\ positions' = positions
          /\ completed_trades' = completed_trades
          /\ daily_pnl' = daily_pnl
          /\ \E e \in Range(last_call'.log) : e.ev \in {"raise", "close_failed"}]_vars

\* C22: generate_entry_signal returns no signal for a snapshot whose spot_price is zero
\* or negative
C22_NoSignalWithoutSpotPrice ==
    (analysis.op = "generate_entry_signal" /\ analysis.spread.spot_price <= 0)
        => ~analysis.signal.present

FiltersPass(stats, spread) ==
    /\ stats.has_sufficient_data
    /\ ~stats.std_is_nan
    /\ stats.var_num > min_basis_std * min_basis_std * stats.var_den
    /\ spread.spot_volume > 0
    /\ 10 * spread.futures_volume >= min_volume_ratio_x10 * spread.spot_volume
    /\ spread.spot_volume + spread.futures_volume >= min_total_volume
    /\ 100 * stats.z_score.n * stats.z_score.n
           > entry_zscore_threshold_x10 * entry_zscore_threshold_x10 * stats.z_score.v

\* the whole lots that capital_per_leg = portfolio_value * capital_per_leg_pct / 100 buys
\* at spot_price: the largest k with k * lot_size * spot_price <= capital_per_leg
WholeLots(spot_price, lot_size) ==
    CHOOSE k \in 0..portfolio_value :
        /\ k * lot_size * spot_price * 100 <= portfolio_value * capital_per_leg_pct
        /\ (k + 1) * lot_size * spot_price * 100 > portfolio_value * capital_per_leg_pct

\* C24: for a positive spot_price, once the filters pass a signal is proposed and its
\* quantity is max(1, floor(capital_per_leg / spot_price / lot_size)), at least one lot
C24_PositionSize ==
    (/\ analysis.op = "generate_entry_signal"
     /\ analysis.spread.spot_price > 0
     /\ FiltersPass(analysis.stats, analysis.spread))
    => /\ analysis.signal.present
       /\ analysis.signal.quantity
              = Max(1, WholeLots(analysis.spread.spot_price, analysis.signal.lot_size))
       /\ analysis.signal.quantity >= 1

\* a signal of one lot was proposed although the capital of a leg buys no whole lot
C24_Witness ==
    /\ analysis.op = "generate_entry_signal"
    /\ analysis.spread.spot_price > 0
    /\ FiltersPass(analysis.stats, analysis.spread)
    /\ analysis.signal.present
    /\ WholeLots(analysis.spread.spot_price, analysis.signal.lot_size) = 0
    /\ analysis.signal.quantity = 1

\* C25: of the signals of a cycle, those selected for execution have the largest
\* |z_score|: no signal is selected while one with a strictly larger |z_score| is not
C25_LargestZScoreFirst ==
    last_call.op = "rank" =>
        \A e \in Range(last_call.log), u \in Range(last_call.log) :
            (/\ e.ev = "selected"
             /\ u.ev = "signal"
             /\ ~\E x \in Range(last_call.log) : x.ev = "selected" /\ x.sym = u.sym)
            => Abs(u.info) <= Abs(e.info)

\* C26: generate_entry_signal returns a signal whenever the entry filters pass and a
\* quantity can be computed, however low the confidence of the signal is
C26_ConfidenceNoGate ==
    (/\ analysis.op = "generate_entry_signal"
     /\ analysis.spread.spot_price # 0
     /\ FiltersPass(analysis.stats, analysis.spread))
    => analysis.signal.present

\* a signal was returned whose confidence is below 1
C26_Witness ==
    /\ analysis.op = "generate_entry_signal"
    /\ FiltersPass(analysis.stats, analysis.spread)
    /\ analysis.signal.present
    /\ analysis.signal.confidence.n * analysis.signal.confidence.n < analysis.signal.confidence.v

\* C27: a cycle in which the gate admits entries ends with a position of every flat
\* symbol for which evaluate_arbitrage_opportunity emits a signal within the available
\* slots, and execute_signal, called while the gate admits entries with the signal of a
\* flat symbol, leaves a position of the symbol
C27_FlatToOpen ==
    [][/\ (RunStrategyCycle /\ LogHas(last_call'.log, "_scan_opportunities"))
              => \A symbol \in Symbols :
                     (/\ ~Has(positions, symbol)
                      /\ current_spreads'[symbol].present
                      /\ evaluate_arbitrage_opportunity(St, symbol, current_spreads'[symbol]).present
                      /\ Len(positions) < max_positions)
                     => Has(positions', symbol)
       /\ (/\ last_call'.op = "execute_signal"
           /\ _should_scan_for_opportunities(St, now)
           /\ ~Has(positions, last_call'.symbol))
              => Has(positions', last_call'.symbol)]_vars

\* _check_exit_conditions has an exit reason for the position whatever its spread:
\* the contract is within three days of expiry, or the clock is past 15:15 in the
\* hour and in the minute
ExitReasonDue(position, t) ==
    \/ position.days_to_expiry <= 3
    \/ (Hour(t) >= 15 /\ Minute(t) >= 15)

\* C28: a cycle removes every position whose quotes are present and for which an exit
\* reason is due, and _close_position, called with an exit reason for a held position
\* whose quotes are present, removes the position
C28_OpenToFlat ==
    [][/\ last_call'.op = "run_strategy_cycle"
              => \A i \in 1..Len(positions) :
                     (/\ QuotesAvailable(positions[i].symbol)
                      /\ ExitReasonDue(positions[i], now))
                     => ~Has(positions', positions[i].symbol)
       /\ (/\ last_call'.op = "_close_position"
           /\ Has(positions, last_call'.symbol)
           /\ QuotesAvailable(last_call'.symbol))
              => ~Has(positions', last_call'.symbol)]_vars

\* the z-scores n/sqrt(v) of two pairs are the same number
SameZ(z1, z2) ==
    /\ (z1.n > 0) = (z2.n > 0)
    /\ (z1.n < 0) = (z2.n < 0)
    /\ z1.n * z1.n * z2.v = z2.n * z2.n * z1.v

\* C29: when a symbol has at least basis_lookback earlier observations whose standard
\* deviation over the last basis_lookback of them exceeds min_basis_std, the mean, the
\* standard deviation and the z_score that calculate_basis_statistics returns for a new
\* observation are those of the new observation against these earlier observations
C29_ScoredAgainstPriorWindow ==
    [][analysis'.op = "calculate_basis_statistics" =>
          LET old == analyzer.basis_history[analysis'.symbol]
              prior == LastK(old, basis_lookback)
              n == Len(prior)
              stats == analysis'.stats
          IN (Len(old) >= basis_lookback /\ StdAbove(VarNum(prior), n * n))
             => /\ stats.has_sufficient_data
                /\ stats.mean_num * n = SumSeq(prior) * stats.mean_den
                /\ stats.var_num * n * n = VarNum(prior) * stats.var_den
                /\ SameZ(stats.z_score,
                         [n |-> n * analysis'.basis - SumSeq(prior), v |-> VarNum(prior)])]_vars

\* the widest and the narrowest spread a position has recorded: a long futures leg
\* gains when the spread widens, a short futures leg when it narrows
WidestSpread(position) ==
    IF position.signal_type = "LONG_FUTURES_SHORT_SPOT"
    THEN position.max_favorable_spread ELSE position.max_adverse_spread
NarrowestSpread(position) ==
    IF position.signal_type = "LONG_FUTURES_SHORT_SPOT"
    THEN position.max_adverse_spread ELSE position.max_favorable_spread

\* C30: a cycle that updates a position from its quotes leaves current_spread at the
\* spread of the quotes, and max_favorable_spread and max_adverse_spread at the running
\* maximum and minimum (by direction) of the value before the update (the entry spread
\* at the first update) and the new current_spread
C30_RunningExtrema ==
    [][last_call'.op = "run_strategy_cycle" =>
          \A i \in 1..Len(positions) :
              LET before == positions[i]
                  symbol == before.symbol
                  after == Get(positions', symbol)
                  first == before.current_spot_price = 0 /\ before.current_futures_price = 0
                  widest == IF first THEN before.entry_spread ELSE WidestSpread(before)
                  narrowest == IF first THEN before.entry_spread ELSE NarrowestSpread(before)
              IN (QuotesAvailable(symbol) /\ Has(positions', symbol))
                 => /\ after.current_spread = futures_quotes[symbol].ltp - spot_quotes[symbol].ltp
                    /\ WidestSpread(after) = Max(widest, after.current_spread)
                    /\ NarrowestSpread(after) = Min(narrowest, after.current_spread)]_vars

\* C31: after a cycle has updated the metrics, total_trades is the length of
\* completed_trades, winning_trades + losing_trades is total_trades, total_pnl is the sum
\* of net_pnl over completed_trades, and a cycle that follows a cycle with the same
\* completed_trades leaves the metrics as they were
C31_MetricsFromHistory ==
    [][last_call'.op = "run_strategy_cycle" =>
          /\ metrics'.total_trades = Len(completed_trades')
          /\ metrics'.winning_trades + metrics'.losing_trades = metrics'.total_trades
          /\ metrics'.winning_trades
                 = Len(SelectSeq(completed_trades', LAMBDA t : t.net_pnl > 0))
          /\ metrics'.total_pnl = SumOf(LAMBDA t : t.net_pnl, completed_trades')
          /\ (last_call.op = "run_strategy_cycle" /\ completed_trades' = completed_trades)
                 => metrics' = metrics]_vars

\* a cycle has updated the metrics from a history of one losing trade; update_metrics
\* raised after the counts and the sums were assigned
C31_Witness ==
    /\ last_call.op = "run_strategy_cycle"
    /\ completed_trades # <<>>
    /\ metrics.total_trades = Len(completed_trades)
    /\ metrics.losing_trades = 1
    /\ metrics.total_pnl < 0
    /\ LogHas(last_call.log, "metrics_failed")

\* _scan_opportunities, first loop: the symbols handed to evaluate_arbitrage_opportunity
ScannedSymbols(st) ==
    {trading_symbols[i] : i \in {j \in 1..Len(trading_symbols) :
                                    /\ ~Has(st.positions, trading_symbols[j])
                                    /\ st.current_spreads[trading_symbols[j]].present}}

\* C32: in a cycle, a held symbol whose quotes are present and for which an exit reason
\* is due is flat when the exit phase ends, and when the gate admits entries it is among
\* the symbols the entry phase of the same cycle evaluates
C32_ReentrySameCycle ==
    [][last_call'.op = "run_strategy_cycle" =>
          LET monitored == monitor_positions(
                               _update_all_spreads(_update_market_state(St)), now)
          IN \A i \in 1..Len(positions) :
                 (/\ QuotesAvailable(positions[i].symbol)
                  /\ ExitReasonDue(positions[i], now))
                 => /\ ~Has(monitored.positions, positions[i].symbol)
                    /\ _should_scan_for_opportunities(monitored, now)
                           => positions[i].symbol \in ScannedSymbols(monitored)]_vars

\* values of ArbitrageStrategyConfig.days_before_expiry_to_exit (DAYS_BEFORE_EXPIRY_TO_EXIT
\* of the environment, default 3); the strategy never reads the field
ConfiguredExpiryDays == {1, 3, 10}

\* C33: whatever days_before_expiry_to_exit is configured, a cycle closes every held
\* position whose quotes are present and whose days_to_expiry is at or below it: the
\* position leaves the ledger and a trade result of the symbol is appended, with
\* exit_reason EXPIRY_EXIT or a reason that _check_exit_conditions tests earlier
C33_ExpiryExit ==
    [][last_call'.op = "run_strategy_cycle" =>
          \A configured \in ConfiguredExpiryDays :
              \A i \in 1..Len(positions) :
                  (/\ QuotesAvailable(positions[i].symbol)
                   /\ positions[i].days_to_expiry <= configured)
                  => /\ ~Has(positions', positions[i].symbol)
                     /\ \E k \in (Len(completed_trades) + 1)..Len(completed_trades') :
                            /\ completed_trades'[k].symbol = positions[i].symbol
                            /\ completed_trades'[k].exit_reason
                                   \in {"TARGET", "STOP_LOSS", "EXPIRY_EXIT"}]_vars

\* C34: the stop_loss_spread of a signal that generate_entry_signal returns for a
\* snapshot with a positive spot price lies strictly on the adverse side of the entry
\* basis futures_price - spot_price, whatever the sign of the basis: below it for a long
\* futures leg, which gains when the basis widens, and above it for a short futures leg;
\* so the stop-loss condition does not hold at the entry prices
C34_StopOnAdverseSide ==
    (/\ analysis.op = "generate_entry_signal"
     /\ analysis.signal.present
     /\ analysis.spread.spot_price > 0)
    => LET entry_spread == analysis.signal.futures_price - analysis.signal.spot_price
           stop == analysis.signal.stop_loss_spread
       IN IF analysis.signal.signal_type = "LONG_FUTURES_SHORT_SPOT"
          THEN stop.num < entry_spread * stop.den
          ELSE stop.num > entry_spread * stop.den

\* C35: daily_pnl is the sum of net_pnl over completed_trades
C35_DailyPnlIsSum ==
    daily_pnl = SumOf(LAMBDA t : t.net_pnl, completed_trades)

\* _close_position has been called for a held symbol whose quotes are present, on a
\* strategy whose history holds a losing trade
C35_Witness ==
    /\ last_call.op = "_close_position"
    /\ Has(positions, last_call.symbol)
    /\ QuotesAvailable(last_call.symbol)
    /\ completed_trades # <<>>
    /\ daily_pnl < 0

\* C36: a cycle leaves every held position whose spot or futures quote is missing as
\* it was, field by field; _close_position for a held symbol whose spot or futures quote
\* is missing leaves positions, completed_trades and daily_pnl as they were
C36_MissingQuoteFrame ==
    [][/\ last_call'.op = "run_strategy_cycle"
              => \A i \in 1..Len(positions) :
                     ~QuotesAvailable(positions[i].symbol)
                         => /\ Has(positions', positions[i].symbol)
                            /\ Get(positions', positions[i].symbol) = positions[i]
       /\ (/\ last_call'.op = "_close_position"
           /\ Has(positions, last_call'.symbol)
           /\ ~QuotesAvailable(last_call'.symbol))
              => /\ positions' = positions
                 /\ completed_trades' = completed_trades
                 /\ daily_pnl' = daily_pnl]_vars

\* _close_position has given up on a held symbol for its missing quotes
C36_Witness ==
    /\ last_call.op = "_close_position"
    /\ Has(positions, last_call.symbol)
    /\ ~QuotesAvailable(last_call.symbol)
    /\ \E e \in Range(last_call.log) : e.ev = "close_failed" /\ e.info = "missing quotes"

\* a cycle has passed over a first position without quotes and has updated the second
C36_WitnessCycle ==
    /\ last_call.op = "run_strategy_cycle"
    /\ Len(positions) = 2
    /\ ~QuotesAvailable(positions[1].symbol)
    /\ positions[1].current_spot_price = 0
    /\ positions[2].current_spot_price # 0

\* C37: a cycle in which the processing of one position raises still processes every
\* other held position whose quotes are present: the position is closed when an exit
\* reason is due for it, and otherwise carries the prices of its quotes
C37_MonitorIsolation ==
    [][last_call'.op = "run_strategy_cycle" =>
          \A e \in Range(last_call'.log) :
              e.ev = "raise" =>
                  \A i \in 1..Len(positions) :
                      (/\ positions[i].symbol # e.sym
                       /\ QuotesAvailable(positions[i].symbol))
                      => IF ExitReasonDue(positions[i], now)
                         THEN ~Has(positions', positions[i].symbol)
                         ELSE /\ Has(positions', positions[i].symbol)
                              /\ Get(positions', positions[i].symbol).current_spot_price
                                     = spot_quotes[positions[i].symbol].ltp
                              /\ Get(positions', positions[i].symbol).current_futures_price
                                     = futures_quotes[positions[i].symbol].ltp]_vars

\* C38: a call of calculate_basis_statistics or of check_exit_signal for a symbol
\* records one observation of the symbol, the one it was given, at the end of the
\* symbol's history and leaves the history of every other symbol as it was; a call of
\* generate_entry_signal leaves every history as it was
C38_OneObservationPerCall ==
    [][/\ analysis'.op \in {"calculate_basis_statistics", "check_exit_signal"}
              => LET symbol == analysis'.symbol
                     old == analyzer.basis_history[symbol]
                     new == analyzer'.basis_history[symbol]
                     appended == Append(old, analysis'.basis)
                 IN /\ analyzer'.data_point_count[symbol]
                           = analyzer.data_point_count[symbol] + 1
                    /\ new = IF Len(appended) > max_history_length
                             THEN Tail(appended) ELSE appended
                    /\ \A s \in AnalyzerSymbols \ {symbol} :
                           /\ analyzer'.basis_history[s] = analyzer.basis_history[s]
                           /\ analyzer'.data_point_count[s] = analyzer.data_point_count[s]
       /\ analysis'.op = "generate_entry_signal" => analyzer' = analyzer]_vars

\* check_exit_signal has recorded an observation that calculate_basis_statistics had
\* recorded before it: the history ends with the same value twice
C38_Witness ==
    /\ analysis.op = "check_exit_signal"
    /\ LET history == analyzer.basis_history[analysis.symbol]
       IN /\ Len(history) >= 2
          /\ history[Len(history)] = analysis.basis
          /\ history[Len(history) - 1] = analysis.basis
    /\ analyzer.data_point_count[analysis.symbol] >= 2

\* C39: with exit_zscore_threshold > 0, check_exit_signal returns
\* (True, "BASIS_CONVERGENCE") whenever the symbol has sufficient data and the standard
\* deviation of its window is at most min_basis_std, whatever the position
C39_FlatBasisExits ==
    (/\ analysis.op = "check_exit_signal"
     /\ exit_zscore_threshold_x10 > 0
     /\ analysis.stats.has_sufficient_data
     /\ ~StdAbove(analysis.stats.var_num, analysis.stats.var_den))
    => analysis.exit = ExitDecision(TRUE, "BASIS_CONVERGENCE")

\* the exit was given on a window without any movement, for a position whose loss is
\* beyond the stop loss
C39_Witness ==
    /\ analysis.op = "check_exit_signal"
    /\ analysis.stats.has_sufficient_data
    /\ analysis.stats.var_num = 0
    /\ analysis.stats.z_score = ZeroZ
    /\ analysis.position.unrealized_pnl = -6000
    /\ analysis.exit = ExitDecision(TRUE, "BASIS_CONVERGENCE")

----------------------------------------------------------------------------
(* The hybrid data service driven by its owner                             *)

\* the callbacks the owner registers, each of them once
Callbacks == {"on_quote", "on_spread"}
\* the number of calls of connect
MaxConnects == 2

\* a call of connect; the fallback's outcome matters only when it is tried
Connect ==
    \E ws \in ConnectOutcomes, rest \in ConnectOutcomes :
        LET r == connect(data_service, ws, rest)
        IN /\ service_call.connects < MaxConnects
           /\ ws = "True" => rest = "raise"
           /\ data_service' = r.service
           /\ service_call' = [op |-> "connect", ws |-> ws, rest |-> rest,
                               returned |-> r.returned, tried_fallback |-> r.tried_fallback,
                               connects |-> service_call.connects + 1]
           /\ UNCHANGED <<strategy_vars, analyzer_vars>>

\* a call of add_data_callback with a callback not registered before
AddDataCallback ==
    \E callback \in Callbacks :
        /\ callback \notin Range(data_service.data_callbacks)
        /\ data_service' = add_data_callback(data_service, callback)
        /\ service_call' = [service_call EXCEPT !.op = "add_data_callback"]
        /\ UNCHANGED <<strategy_vars, analyzer_vars>>

\* a call of disconnect
Disconnect ==
    /\ data_service' = disconnect(data_service)
    /\ service_call' = [service_call EXCEPT !.op = "disconnect"]
    /\ UNCHANGED <<strategy_vars, analyzer_vars>>

NextHybrid == Connect \/ AddDataCallback \/ Disconnect

SpecHybrid == Init /\ [][NextHybrid]_vars

\* the number of times a callback is in a service's list
Registrations(service, callback) ==
    Cardinality({i \in 1..Len(service.data_callbacks) : service.data_callbacks[i] = callback})

\* C40: connect starts the REST fallback only when the WebSocket service did not
\* connect, and returns True exactly when one of the two connected; after it
\* using_fallback is True exactly when the REST service is connected; and while the
\* hybrid is connected every callback of its list is registered once on the service it
\* reads and not at all on the other
C40_HybridConnect ==
    [][/\ service_call'.op = "connect"
              => /\ service_call'.tried_fallback => service_call'.ws # "True"
                 /\ service_call'.returned
                        <=> (\/ service_call'.ws = "True"
                             \/ service_call'.tried_fallback /\ service_call'.rest = "True")
                 /\ data_service'.using_fallback
                        <=> data_service'.fallback_service.is_connected
       /\ (/\ service_call'.op \in {"connect", "add_data_callback"}
           /\ data_service'.is_connected)
              => LET active == IF data_service'.using_fallback
                               THEN data_service'.fallback_service
                               ELSE data_service'.primary_service
                     inactive == IF data_service'.using_fallback
                                 THEN data_service'.primary_service
                                 ELSE data_service'.fallback_service
                 IN \A callback \in Range(data_service'.data_callbacks) :
                        /\ Registrations(active, callback) = 1
                        /\ Registrations(inactive, callback) = 0]_vars

====
